---- MODULE Spec2Model ----
(***************************************************************************)
(* Dual queue worker of feed_me (apps/worker/app): the handle queue        *)
(* (run_queue), the post checkpoint queue (post_queue), the scraper        *)
(* circuit breaker (apify_health) and the worker loop of cli.py.           *)
(*                                                                         *)
(* Time is counted in hours.  Every database function of db.py is one      *)
(* transaction; a transaction that holds a row lock across two statements  *)
(* (fetch_next_job: SELECT .. FOR UPDATE SKIP LOCKED, then UPDATE) is      *)
(* split into the two statements so that concurrent claims interleave.     *)
(***************************************************************************)
EXTENDS Integers, Sequences, FiniteSets, TLC

\* ---------------------------------------------------------------- bounds
MaxTime == 1
MaxRunRows == 2
MaxPostRunRows == 1
MaxPostTime == 1
\* rows of one (handle, checkpoint) in the queue a batch is fetched from
MaxSameKey == 11
\* distinct metric values among the other posts of the handle sheet
MaxPeerValues == 3
\* _percentile alone: length and values of the small pools, and the number
\* of unique values of the large ones
MaxPool == 3
MaxPoolValue == 2
MaxUnique == 200

\* ------------------------------------------------------------- constants
Workers == {"w1", "w2"}
Handles == {"a", "b"}
Urls == {"u1", "u2"}
\* SQL NULL / Python None for a timestamp
NULL == -1
\* RETRY_BACKOFF_MINUTES configured as "0,60": two slots, of 0h and of 1h
RETRY_BACKOFF_MINUTES == <<0, 1>>
post_batch_size == 10
\* posted_at values a scraped item can carry (hours relative to time 0)
PostedAts == {-504, -168}
\* configurations of APIFY_COOLDOWN_TRIGGER_FAILURES / APIFY_COOLDOWN_HOURS
TriggerValues == {0, 1, 2, 3}
CooldownValues == {0, 1, 2}

VARIABLES
    now,                \* wall clock / NOW()
    run_queue,          \* table run_queue: sequence of rows, id = index
    post_queue,         \* table post_queue: sequence of rows, id = index
    rq_locked,          \* run_queue ids row-locked by an open transaction
    pq_locked,          \* post_queue ids row-locked by an open transaction
    apify_health,       \* singleton row id=1 of apify_health
    post_signals,       \* post_signals.velocity_tag class per (handle, url)
    trigger_failures,   \* APIFY_COOLDOWN_TRIGGER_FAILURES
    cooldown_hours,     \* APIFY_COOLDOWN_HOURS
    scenario,           \* what the environment offers: handle sheets, scraped posts, time
    pc,                 \* position of each worker in worker()
    pause_until,        \* worker local: pause_until read at the loop top
    job,                \* worker local: row returned by fetch_next_job
    post_jobs,          \* worker local: rows returned by the batch fetch
    new_pause_until,    \* worker local: second result of record_apify_failure
    batch_results,      \* worker local: urls present in the batch result
    idx,                \* worker local: position of the per-job loop
    items,              \* worker local: the items run_actor returned to sync_handle
    post_snapshots,     \* table post_snapshots of one handle sheet
    checkpoint_metrics, \* table post_checkpoint_metrics of one handle sheet
    norm,               \* velocity columns of the row _apply_velocity last filled
    call,               \* arguments of the last classifier call
    pct_values,         \* _percentile: the pool
    pct_value,          \* _percentile: the post's metric per day
    pct,                \* result of _percentile / argument of _velocity_tag
    vtag,               \* result of _velocity_tag
    feed_metrics,       \* table post_checkpoint_metrics of one feed, as the aggregates read it
    signal_aggregates,  \* table signal_aggregates of one feed
    rebuilt_at,         \* NOW() of the last rebuild_signal_aggregates
    alert_candidates,   \* table alert_candidates of one feed
    alert_engine_state, \* the feed's row of alert_engine_state
    stream_rows,        \* what the queries of the alert streams find: the raw candidates
    scan,               \* position and locals of each running generate_alert_candidates
    feeders,            \* table feeders of one feed: status per handle
    handle_sheets,      \* schedule(): the sheet titles listed for the subscriber
    schedule_pc,        \* position of schedule() in its loop body
    apify_run           \* position and locals of _run_payload, and how it ended

vars == <<now, run_queue, post_queue, rq_locked, pq_locked, apify_health,
          post_signals, trigger_failures, cooldown_hours, scenario, pc, pause_until,
          job, post_jobs, new_pause_until, batch_results, idx, items,
          post_snapshots, checkpoint_metrics, norm, call, pct_values, pct_value,
          pct, vtag, feed_metrics, signal_aggregates, rebuilt_at, alert_candidates,
          alert_engine_state, stream_rows, scan, feeders, handle_sheets,
          schedule_pc, apify_run>>

dbvars == <<run_queue, post_queue, rq_locked, pq_locked, apify_health, post_signals>>
localvars == <<pause_until, job, post_jobs, new_pause_until, batch_results, idx, items>>
schedvars == <<feeders, handle_sheets, schedule_pc>>
\* what no step of the worker, a classifier, a rebuild or an alert scan writes
config == <<trigger_failures, cooldown_hours, scenario, schedvars, apify_run>>
velvars == <<post_snapshots, checkpoint_metrics, norm, call, pct_values, pct_value,
             pct, vtag>>
feedvars == <<feed_metrics, signal_aggregates, rebuilt_at, alert_candidates,
              alert_engine_state, stream_rows, scan>>
aggvars == <<feed_metrics, signal_aggregates, rebuilt_at>>

Posts == Handles \X Urls
NoJob == [id |-> 0, attempt |-> 0, handle |-> "none"]

Max(a, b) == IF a >= b THEN a ELSE b
Min(a, b) == IF a <= b THEN a ELSE b

\* ---------------------------------------------------------- queue store
RunIds == 1..Len(run_queue)
PostIds == 1..Len(post_queue)

Claimable(row) == row.status \in {"pending", "retry"}

\* WHERE status IN ('pending','retry') AND next_run_at <= NOW()
Ready(row, t) == Claimable(row) /\ row.next_run_at <= t

\* ORDER BY next_run_at ASC, id ASC
Before(q, i, j) ==
    \/ q[i].next_run_at < q[j].next_run_at
    \/ q[i].next_run_at = q[j].next_run_at /\ i <= j

\* faulty variant: FOR UPDATE without SKIP LOCKED semantics on the candidate set
fetch_next_job_ignoring_locks(q, locked, t) ==
    LET cand == {i \in 1..Len(q) : Ready(q[i], t)}
    IN  IF cand = {} THEN 0
        ELSE CHOOSE i \in cand : \A j \in cand : Before(q, i, j)

\* faulty variant: ORDER BY id only
fetch_next_job_by_id(q, locked, t) ==
    LET cand == {i \in 1..Len(q) : Ready(q[i], t) /\ i \notin locked}
    IN  IF cand = {} THEN 0
        ELSE CHOOSE i \in cand : \A j \in cand : i <= j

\* the query of fetch_next_job: FOR UPDATE SKIP LOCKED LIMIT 1; 0 = no row
fetch_next_job_select(q, locked, t) ==
    LET cand == {i \in 1..Len(q) : Ready(q[i], t) /\ i \notin locked}
    IN  IF cand = {} THEN 0
        ELSE CHOOSE i \in cand : \A j \in cand : Before(q, i, j)

\* unique index run_queue_unique_pending ON (subscriber_id, handle)
\* WHERE status IN ('pending','retry'): would row id, once claimable, collide?
run_queue_unique_pending_conflict(q, h, except) ==
    \E i \in 1..Len(q) : i # except /\ q[i].handle = h /\ Claimable(q[i])


\* INSERT .. VALUES (.., 'pending') ON CONFLICT DO NOTHING
enqueue_handle(q, h, t) ==
    IF run_queue_unique_pending_conflict(q, h, 0) THEN q
    ELSE Append(q, [handle |-> h, status |-> "pending", attempt |-> 0, next_run_at |-> t])

mark_job_success(q, id) == [q EXCEPT ![id].status = "done"]
mark_job_failed(q, id) == [q EXCEPT ![id].status = "failed"]
mark_job_retry(q, id, attempt, next_run_at) ==
    [q EXCEPT ![id].status = "retry", ![id].attempt = attempt,
              ![id].next_run_at = next_run_at]

\* ------------------------------------------------------ circuit breaker
record_apify_success(h) == [consecutive_failures |-> 0, pause_until |-> NULL]

\* faulty variant: the counter is not reset when the breaker trips
record_apify_failure_no_reset(h, trigger, cooldown, t) ==
    LET failures == h.consecutive_failures + 1
    IN  IF failures >= Max(1, trigger)
        THEN [row |-> [consecutive_failures |-> failures,
                       pause_until |-> t + Max(1, cooldown)],
              pause_until |-> t + Max(1, cooldown)]
        ELSE [row |-> [h EXCEPT !.consecutive_failures = failures],
              pause_until |-> NULL]

\* returns the new row and the second component of the Python result
record_apify_failure(h, trigger, cooldown, t) ==
    LET failures == h.consecutive_failures + 1
    IN  IF failures >= Max(1, trigger)
        THEN [row |-> [consecutive_failures |-> 0,
                       pause_until |-> t + Max(1, cooldown)],
              pause_until |-> t + Max(1, cooldown)]
        ELSE [row |-> [h EXCEPT !.consecutive_failures = failures],
              pause_until |-> NULL]

\* ------------------------------------------------------------- cli.py
\* _next_retry_time(attempt)
_next_retry_time(attempt, t) ==
    LET i == Min(attempt - 1, Len(RETRY_BACKOFF_MINUTES) - 1)
    IN  t + RETRY_BACKOFF_MINUTES[i + 1]

\* `if pause_until and pause_until > datetime.now(timezone.utc)`
CooldownActive(p, t) == p # NULL /\ p > t


\* ----------------------------------------------------------- post queue
CheckpointRows(posted_at) ==
    << [checkpoint |-> "d3",  run_at |-> posted_at + 3 * 24,  requires_d7_hot |-> FALSE],
       [checkpoint |-> "d7",  run_at |-> posted_at + 7 * 24,  requires_d7_hot |-> FALSE],
       [checkpoint |-> "d21", run_at |-> posted_at + 21 * 24, requires_d7_hot |-> TRUE] >>

\* unique index post_queue_unique_checkpoint
\* ON (subscriber_id, handle, post_url, checkpoint)
post_queue_unique_checkpoint_conflict(q, h, u, c) ==
    \E i \in 1..Len(q) : q[i].handle = h /\ q[i].url = u /\ q[i].checkpoint = c

\* one INSERT .. ON CONFLICT (subscriber_id, handle, post_url, checkpoint) DO NOTHING
insert_post_job(q, h, u, cp) ==
    IF post_queue_unique_checkpoint_conflict(q, h, u, cp.checkpoint) THEN q
    ELSE Append(q, [handle |-> h, url |-> u, checkpoint |-> cp.checkpoint,
                    requires_d7_hot |-> cp.requires_d7_hot, status |-> "pending",
                    attempt |-> 0, next_run_at |-> cp.run_at])

\* faulty variant: ON CONFLICT .. DO UPDATE, which re-arms an existing row
ensure_post_checkpoint_jobs_reset(q, h, u, posted_at) ==
    IF posted_at = NULL THEN q
    ELSE LET cps == CheckpointRows(posted_at)
             old == [i \in 1..Len(q) |->
                       IF q[i].handle = h /\ q[i].url = u
                       THEN [q[i] EXCEPT !.status = "pending"] ELSE q[i]]
         IN  insert_post_job(insert_post_job(insert_post_job(old, h, u, cps[1]),
                                             h, u, cps[2]), h, u, cps[3])

ensure_post_checkpoint_jobs(q, h, u, posted_at) ==
    IF posted_at = NULL THEN q
    ELSE LET cps == CheckpointRows(posted_at)
         IN  insert_post_job(insert_post_job(insert_post_job(q, h, u, cps[1]),
                                             h, u, cps[2]), h, u, cps[3])

\* the query of fetch_next_post_job: same shape as fetch_next_job
fetch_next_post_job_select(q, locked, t) ==
    LET cand == {i \in 1..Len(q) : Ready(q[i], t) /\ i \notin locked}
    IN  IF cand = {} THEN 0
        ELSE CHOOSE i \in cand : \A j \in cand : Before(q, i, j)

RECURSIVE OrderedIds(_, _)
OrderedIds(q, S) ==
    IF S = {} THEN <<>>
    ELSE LET m == CHOOSE i \in S : \A j \in S : Before(q, i, j)
         IN  <<m>> \o OrderedIds(q, S \ {m})

\* faulty variant: the first N ready rows, whatever their handle and checkpoint
fetch_next_post_job_batch_any_key(q, locked, t, n) ==
    LET ord == OrderedIds(q, {i \in 1..Len(q) : Ready(q[i], t) /\ i \notin locked})
    IN  SubSeq(ord, 1, Min(n, Len(ord)))

\* fetch_next_post_job_batch(N): the first ready row and up to N-1 further
\* ready rows of the same (subscriber, handle, checkpoint), in queue order
fetch_next_post_job_batch_select(q, locked, t, n) ==
    LET a == fetch_next_post_job_select(q, locked, t)
    IN  IF a = 0 THEN <<>>
        ELSE LET same == {i \in 1..Len(q) :
                            /\ Ready(q[i], t) /\ i \notin locked
                            /\ q[i].handle = q[a].handle
                            /\ q[i].checkpoint = q[a].checkpoint}
                 ord == OrderedIds(q, same)
             IN  SubSeq(ord, 1, Min(n, Len(ord)))

JobRow(q, i) == [id |-> i, attempt |-> q[i].attempt, handle |-> q[i].handle,
                 url |-> q[i].url, checkpoint |-> q[i].checkpoint,
                 requires_d7_hot |-> q[i].requires_d7_hot]

SeqIds(s) == {s[i].id : i \in 1..Len(s)}

mark_post_job_success(q, id) == [q EXCEPT ![id].status = "done"]
mark_post_job_failed(q, id) == [q EXCEPT ![id].status = "failed"]
mark_post_job_skipped(q, id) == [q EXCEPT ![id].status = "skipped"]
mark_post_job_retry(q, id, attempt, next_run_at) ==
    [q EXCEPT ![id].status = "retry", ![id].attempt = attempt,
              ![id].next_run_at = next_run_at]

\* is_d7_hot: the post_signals row of the post carries a fire or rocket tag
is_d7_hot(signals, h, u) ==
    LET tag == signals[<<h, u>>].velocity_tag
    IN  \E i \in 1..Len(tag) : tag[i] \in {"fire", "rocket"}

PostsQueued(q) == {<<q[i].handle, q[i].url>> : i \in 1..Len(q)}

\* ------------------------------------------------- velocity classifier
\* Strings the classifier takes apart are sequences: a tag is a sequence of
\* glyphs ("" is <<>>, which also stands for None wherever the code only
\* tests truthiness), a percentile is its characters ("15%" is <<"1","5","%">>)
Checkpoints == {"d1", "d3", "d7", "d21"}
ROCKET == <<"rocket">>
FIRE == <<"fire">>
CHECK == <<"check">>
SLEEPING == <<"sleeping">>
CLOVER == <<"clover">>
INSUFFICIENT_DATA == <<"insufficient_data">>
NoTag == <<>>
NoPercentile == <<>>

DigitChars == <<"0", "1", "2", "3", "4", "5", "6", "7", "8", "9">>

RECURSIVE str_int(_)
\* str(p) of a non-negative integer
str_int(n) ==
    IF n < 10 THEN <<DigitChars[n + 1]>>
    ELSE str_int(n \div 10) \o <<DigitChars[(n % 10) + 1]>>

\* f"{p}%"
format_percent(p) == str_int(p) \o <<"%">>

\* str.replace("%", "")
strip_percent(s) == SelectSeq(s, LAMBDA ch : ch # "%")

DigitValue(ch) == CHOOSE d \in 0..9 : DigitChars[d + 1] = ch

RECURSIVE int_str(_)
\* int(s) of a string of digits; NULL where int() raises
int_str(s) ==
    IF s = <<>> \/ \E i \in 1..Len(s) : \A d \in 1..10 : DigitChars[d] # s[i]
    THEN NULL
    ELSE IF Len(s) = 1 THEN DigitValue(s[1])
    ELSE int_str(SubSeq(s, 1, Len(s) - 1)) * 10 + DigitValue(s[Len(s)])

\* str.lower() on the media types of the model
lower(s) ==
    CASE s = "Video" -> "video"
      [] s = "Image" -> "image"
      [] s = "Sidecar" -> "sidecar"
      [] OTHER -> s

\* `a in b` for media-type words: none of the lower-cased media types of the
\* model is a proper substring of another
in_str(a, b) == a = b

or0(x) == IF x = NULL THEN 0 ELSE x

\* SQL NULL in a text column, and `x or ""` on it
NullText == "NULL"
text_or(x) == IF x = NullText THEN "" ELSE x

\* faulty variant: int() without round()
round_down(n, d) == n \div d

\* round() of the non-negative fraction n/d: to the nearest integer, a tie
\* goes to the even one
round_half_even(n, d) ==
    LET q == n \div d
        r == n % d
    IN  IF 2 * r < d THEN q
        ELSE IF 2 * r > d THEN q + 1
        ELSE IF q % 2 = 0 THEN q ELSE q + 1

_metric_value(type, views, likes, comments) ==
    LET media_type == lower(type)
    IN  IF in_str("video", media_type) \/ in_str("reel", media_type)
        THEN or0(views)
        ELSE IF in_str("sidecar", media_type) \/ in_str("carousel", media_type)
        THEN or0(likes) + 2 * or0(comments)
        ELSE or0(likes)

\* faulty variant: the boundary ages fall into the earlier checkpoint
_checkpoint_from_age_inclusive(age_hours) ==
    IF age_hours <= 48 THEN "d1"
    ELSE IF age_hours <= 168 THEN "d3"
    ELSE IF age_hours <= 504 THEN "d7"
    ELSE "d21"

_checkpoint_from_age(age_hours) ==
    IF age_hours < 48 THEN "d1"
    ELSE IF age_hours < 168 THEN "d3"
    ELSE IF age_hours < 504 THEN "d7"
    ELSE "d21"

_stage_label(checkpoint, age_hours) ==
    CASE checkpoint = "d1" -> IF age_hours < 24 THEN "D1" ELSE "D2"
      [] checkpoint = "d3" -> "D3"
      [] checkpoint = "d7" -> "D7"
      [] checkpoint = "d21" -> "D21"
      [] OTHER -> "D1"

NoTriple == [views |-> NULL, likes |-> NULL, comments |-> NULL]

\* NULL when the three columns of the checkpoint are NULL
_metric_for_checkpoint(snap, item, checkpoint) ==
    LET t == snap[checkpoint]
    IN  IF t = NoTriple THEN NULL
        ELSE _metric_value(item.type, t.views, t.likes, t.comments)

_checkpoint_days(checkpoint) ==
    CASE checkpoint = "d1" -> 1
      [] checkpoint = "d3" -> 3
      [] checkpoint = "d7" -> 7
      [] checkpoint = "d21" -> 21
      [] OTHER -> 0

\* faulty variant: one threshold for every checkpoint
_min_cohort_size_always_20(checkpoint) == 20

_min_cohort_size(checkpoint) == IF checkpoint = "d1" THEN 12 ELSE 20

\* metric / days, in units of 1/21 per day (exact for 1, 3, 7 and 21 days)
per_day(metric, days) == (metric * 21) \div days

\* The pool is a family of values indexed by the rows it came from: its
\* length is the number of indices, set(values) is its range
_velocity_pool(snapshots, media_type, checkpoint) ==
    LET days == _checkpoint_days(checkpoint)
        mtype(u) == lower(text_or(snapshots[u].media_type))
        rows == {u \in DOMAIN snapshots :
                    /\ snapshots[u][checkpoint] # NoTriple
                    /\ ~(/\ media_type # "" /\ mtype(u) # ""
                         /\ ~in_str(media_type, mtype(u))
                         /\ ~in_str(mtype(u), media_type))}
    IN  [u \in rows |->
            per_day(_metric_value(mtype(u), snapshots[u][checkpoint].views,
                                  snapshots[u][checkpoint].likes,
                                  snapshots[u][checkpoint].comments), days)]

\* rank of value among the unique values in descending order
dense_rank(uniq, value) ==
    IF \E v \in uniq : value >= v
    THEN Cardinality({v \in uniq : v > value}) + 1
    ELSE Cardinality(uniq)

_percentile(values, value) ==
    LET uniq == {values[i] : i \in DOMAIN values}
        U == Cardinality(uniq)
        rank == dense_rank(uniq, value)
    IN  IF U = 0 THEN NoPercentile
        ELSE IF U = 1 THEN format_percent(50)
        ELSE format_percent(Max(1, Min(100,
                 round_half_even((U - 1) + (rank - 1) * 99, U - 1))))

\* faulty variant: the fire band ends below 15
_velocity_tag_fire_below_15(percentile) ==
    LET p == IF percentile # NoPercentile THEN int_str(strip_percent(percentile))
             ELSE NULL
    IN  IF p = NULL THEN CHECK
        ELSE IF p <= 5 THEN ROCKET
        ELSE IF p < 15 THEN FIRE
        ELSE IF p <= 35 THEN CHECK
        ELSE SLEEPING

_velocity_tag(percentile) ==
    LET p == IF percentile # NoPercentile THEN int_str(strip_percent(percentile))
             ELSE NULL
    IN  IF p = NULL THEN CHECK
        ELSE IF p <= 5 THEN ROCKET
        ELSE IF p <= 15 THEN FIRE
        ELSE IF p <= 35 THEN CHECK
        ELSE SLEEPING

_is_high_tag(tag) == \E i \in 1..Len(tag) : tag[i] \in {"fire", "rocket"}

snap_media_type(snap, item) ==
    lower(IF text_or(snap.media_type) # "" THEN snap.media_type ELSE item.type)

_velocity_tag_for_checkpoint(snapshots, media_type, snap, item, checkpoint) ==
    LET metric == _metric_for_checkpoint(snap, item, checkpoint)
        pool == _velocity_pool(snapshots, media_type, checkpoint)
        n == Cardinality(DOMAIN pool)
    IN  IF metric = NULL \/ n = 0 THEN NoTag
        ELSE IF n < _min_cohort_size(checkpoint) THEN INSUFFICIENT_DATA
        ELSE _velocity_tag(_percentile(pool,
                 per_day(metric, _checkpoint_days(checkpoint))))

\* the late-bloomer step of _velocity_from_snapshots
late_bloomer(prev, tag) ==
    IF (~_is_high_tag(prev)) /\ _is_high_tag(tag) THEN CLOVER \o tag ELSE tag

_velocity_from_snapshots(snapshots, snap, item, checkpoint) ==
    LET current_metric == _metric_for_checkpoint(snap, item, checkpoint)
        media_type == snap_media_type(snap, item)
        pool == _velocity_pool(snapshots, media_type, checkpoint)
        n == Cardinality(DOMAIN pool)
        percentile == _percentile(pool,
                          per_day(current_metric, _checkpoint_days(checkpoint)))
        tag == _velocity_tag(percentile)
    IN  IF current_metric = NULL \/ n = 0
        THEN [percentile |-> NoPercentile, tag |-> NoTag]
        ELSE IF n < _min_cohort_size(checkpoint)
        THEN [percentile |-> NoPercentile, tag |-> INSUFFICIENT_DATA]
        ELSE [percentile |-> percentile,
              tag |-> IF checkpoint = "d7"
                      THEN late_bloomer(
                               _velocity_tag_for_checkpoint(snapshots, media_type,
                                                            snap, item, "d1"), tag)
                      ELSE tag]

\* ---- tables written by the classifier (one subscriber, one handle sheet)
\* post_snapshots: post_url -> row; checkpoint_metrics: (post_url, checkpoint) -> row
Snapshot(media_type) ==
    [media_type |-> media_type, d1 |-> NoTriple, d3 |-> NoTriple,
     d7 |-> NoTriple, d21 |-> NoTriple]

\* faulty variant: media_type = new value, whatever the row holds
upsert_snapshot_overwrites_media_type(snapshots, post_url, media_type, checkpoint, views, likes, comments) ==
    LET row == IF post_url \in DOMAIN snapshots THEN snapshots[post_url]
               ELSE Snapshot(media_type)
    IN  [u \in DOMAIN snapshots \cup {post_url} |->
            IF u # post_url THEN snapshots[u]
            ELSE IF checkpoint \notin Checkpoints THEN row
            ELSE [row EXCEPT !.media_type = media_type,
                             ![checkpoint] = [views |-> views, likes |-> likes,
                                              comments |-> comments]]]

\* INSERT .. ON CONFLICT DO NOTHING, then, for a checkpoint of field_map,
\* the UPDATE of the checkpoint's columns with
\* media_type = COALESCE(media_type, new).  The columns dN_at and updated_at
\* (read by the retention cleanup only) are not part of the rows
upsert_snapshot(snapshots, post_url, media_type, checkpoint, views, likes, comments) ==
    LET row == IF post_url \in DOMAIN snapshots THEN snapshots[post_url]
               ELSE Snapshot(media_type)
    IN  [u \in DOMAIN snapshots \cup {post_url} |->
            IF u # post_url THEN snapshots[u]
            ELSE IF checkpoint \notin Checkpoints THEN row
            ELSE [row EXCEPT !.media_type = IF @ = NullText THEN media_type ELSE @,
                             ![checkpoint] = [views |-> views, likes |-> likes,
                                              comments |-> comments]]]

Signal(tag, stage, percentile) ==
    [velocity_tag |-> tag, velocity_stage |-> stage, velocity_percentile |-> percentile]

\* no post_signals row
NoSignal == Signal(NoTag, "none", NoPercentile)

upsert_post_signal(signals, h, u, tag, stage, percentile) ==
    [signals EXCEPT ![<<h, u>>] = Signal(tag, stage, percentile)]

\* faulty variant: the row is stored under the checkpoint of its stage label,
\* a D2 stage under d2
upsert_checkpoint_metric_by_stage(metrics, u, checkpoint, stage_label, tag, percentile) ==
    LET cp == IF stage_label = "D2" THEN "d2" ELSE checkpoint
    IN  [k \in DOMAIN metrics \cup {<<u, cp>>} |->
            IF k = <<u, cp>>
            THEN [stage_label |-> stage_label, velocity_tag |-> tag,
                  velocity_percentile |-> percentile]
            ELSE metrics[k]]

upsert_checkpoint_metric(metrics, u, checkpoint, stage_label, tag, percentile) ==
    [k \in DOMAIN metrics \cup {<<u, checkpoint>>} |->
        IF k = <<u, checkpoint>>
        THEN [stage_label |-> stage_label, velocity_tag |-> tag,
              velocity_percentile |-> percentile]
        ELSE metrics[k]]

\* the velocity columns of the spreadsheet row as normalize_item leaves them
NoNorm == [velocity |-> NoTag, velocity_percentile |-> NoPercentile, velocity_stage |-> ""]

\* sync.py:504-510  the sentinel is projected as empty
project_norm(signal_tag, signal_percentile, stage) ==
    IF signal_tag = INSUFFICIENT_DATA
    THEN [velocity |-> NoTag, velocity_percentile |-> NoPercentile, velocity_stage |-> stage]
    ELSE [velocity |-> signal_tag, velocity_percentile |-> signal_percentile,
          velocity_stage |-> stage]

\* `a or b`
or_else(a, b) == IF a # <<>> THEN a ELSE b

\* st: the tables and the norm dict; forced_checkpoint "" is None
_apply_velocity(st, h, item, forced_checkpoint, t) ==
    LET u == item.post_url
        age_hours == t - item.posted_at
        checkpoint == IF forced_checkpoint # "" THEN forced_checkpoint
                      ELSE _checkpoint_from_age(age_hours)
        snap == st.post_snapshots[u]
        d7_tag == _velocity_tag_for_checkpoint(st.post_snapshots,
                      snap_media_type(snap, item), snap, item, "d7")
        d7 == _velocity_from_snapshots(st.post_snapshots, snap, item, "d7")
        saved == upsert_snapshot(st.post_snapshots, u, item.type, checkpoint,
                                 item.views, item.likes, item.comments)
        now_ == _velocity_from_snapshots(saved, saved[u], item, checkpoint)
        write(snapshots, cp, signal_tag, signal_percentile) ==
            [post_snapshots |-> snapshots,
             post_signals |-> upsert_post_signal(st.post_signals, h, u, signal_tag,
                                  _stage_label(cp, age_hours), signal_percentile),
             checkpoint_metrics |-> upsert_checkpoint_metric(st.checkpoint_metrics, u,
                                  cp, _stage_label(cp, age_hours), signal_tag,
                                  signal_percentile),
             norm |-> project_norm(signal_tag, signal_percentile,
                                   _stage_label(cp, age_hours))]
    IN  IF item.posted_at = NULL THEN st
        ELSE IF /\ checkpoint = "d21"
                /\ u \in DOMAIN st.post_snapshots
                /\ ~_is_high_tag(d7_tag)
        THEN write(st.post_snapshots, "d7",
                   or_else(d7.tag, or_else(d7_tag, CHECK)), d7.percentile)
        ELSE write(saved, checkpoint, or_else(now_.tag, CHECK), now_.percentile)


\* The worker model leaves the cohort out: a classification of
\* _apply_velocity is one of a hot and a cold outcome
HotOutcome == [tag |-> FIRE, percentile |-> format_percent(10)]
ColdOutcome == [tag |-> SLEEPING, percentile |-> format_percent(60)]

\* sync.py:432-537  the post signals _apply_velocity(forced checkpoint) can
\* write: the classification at the checkpoint, or, at d21 for a post whose
\* D7 tag is not hot, the D7 tag with stage D7
ClassifiedSignals(checkpoint, age_hours) ==
    {Signal(o.tag, _stage_label(checkpoint, age_hours), o.percentile) :
        o \in {HotOutcome, ColdOutcome}}
    \cup IF checkpoint = "d21"
         THEN {Signal(ColdOutcome.tag, _stage_label("d7", age_hours),
                      ColdOutcome.percentile)}
         ELSE {}

\* no classifier call yet
NoCall == [item |-> [post_url |-> "", type |-> "", views |-> NULL, likes |-> NULL,
                     comments |-> NULL, posted_at |-> NULL],
           forced_checkpoint |-> ""]

\* ------------------------------------------------------------ initial state
\* _run_payload has not been called
NoRun == [pc |-> "done", status |-> "", elapsed |-> 0, dataset_id |-> FALSE,
          outcome |-> "none", fetched |-> FALSE, timeout |-> 0, interval |-> 0]

\* no feeder yet, schedule() not started, no scraper call in progress
InitIdle ==
    /\ feeders = <<>>
    /\ handle_sheets = <<>>
    /\ schedule_pc = "list"
    /\ apify_run = NoRun

\* no checkpoint metric, no aggregate, no alert, no alert run
InitFeed ==
    /\ feed_metrics = <<>>
    /\ signal_aggregates = <<>>
    /\ rebuilt_at = NULL
    /\ alert_candidates = {}
    /\ alert_engine_state = [last_hot_scan_at |-> NULL, last_pattern_scan_at |-> NULL]
    /\ stream_rows = <<>>
    /\ scan = <<>>

\* init_db(): empty queues, apify_health row (1, 0, NULL)
InitStore ==
    /\ now = 0
    /\ run_queue = <<>>
    /\ post_queue = <<>>
    /\ rq_locked = {}
    /\ pq_locked = {}
    /\ apify_health = [consecutive_failures |-> 0, pause_until |-> NULL]
    /\ post_signals = [p \in Posts |-> NoSignal]
    /\ post_snapshots = <<>>
    /\ checkpoint_metrics = <<>>
    /\ norm = NoNorm
    /\ call = NoCall
    /\ pct_values = <<>>
    /\ pct_value = 0
    /\ pct = NoPercentile
    /\ vtag = NoTag
    /\ InitFeed
    /\ pc = [w \in Workers |-> "top"]
    /\ pause_until = [w \in Workers |-> NULL]
    /\ job = [w \in Workers |-> NoJob]
    /\ post_jobs = [w \in Workers |-> <<>>]
    /\ new_pause_until = [w \in Workers |-> NULL]
    /\ batch_results = [w \in Workers |-> {}]
    /\ idx = [w \in Workers |-> 0]
    /\ items = [w \in Workers |-> <<>>]

\* Handle queue scenario: two worker processes, every handle sheet is
\* scheduled, the scrapes report no post
HandleScenario ==
    [workers |-> Workers, handles |-> Handles, rows |-> MaxRunRows, urls |-> {},
     horizon |-> MaxTime, db_faults |-> FALSE]

\* Post queue scenario: one worker process, one handle sheet whose scrapes
\* report one post
PostScenario ==
    [workers |-> {"w1"}, handles |-> {"a"}, rows |-> MaxPostRunRows, urls |-> {"u1"},
     horizon |-> MaxPostTime, db_faults |-> FALSE]

\* Ingestion scenario: two worker processes within one hour, one handle sheet
\* scheduled once, whose scrapes report one post
IngestScenario ==
    [workers |-> Workers, handles |-> {"a"}, rows |-> 1, urls |-> {"u1"},
     horizon |-> 0, db_faults |-> FALSE]

\* Fault scenario: one worker process, one handle sheet scheduled once, whose
\* scrapes report no post; the database calls that follow mark_job_success
\* in the try block (cli.py:125-128) may raise
FaultScenario ==
    [workers |-> {"w1"}, handles |-> {"a"}, rows |-> 1, urls |-> {},
     horizon |-> MaxTime, db_faults |-> TRUE]

\* APIFY_COOLDOWN_TRIGGER_FAILURES=2, APIFY_COOLDOWN_HOURS=2
Init ==
    /\ InitStore
    /\ trigger_failures = 2
    /\ cooldown_hours = 2
    /\ InitIdle
    /\ scenario \in {HandleScenario, PostScenario, IngestScenario, FaultScenario}

\* ------------------------------------------------------------- environment
Tick ==
    /\ now < scenario.horizon
    /\ now' = now + 1
    /\ UNCHANGED <<dbvars, config, velvars, feedvars, pc, localvars>>

\* schedule("daily"): enqueue_handle for one handle sheet
EnqueueHandle(h) ==
    /\ h \in scenario.handles
    /\ Len(run_queue) < scenario.rows
    /\ run_queue' = enqueue_handle(run_queue, h, now)
    /\ UNCHANGED <<now, post_queue, rq_locked, pq_locked, apify_health,
                   post_signals, config, velvars, feedvars, pc, localvars>>

\* ------------------------------------------------------------ worker loop
\* the loop goes on inside the iteration: only pc moves
Goto(w, l) == pc' = [pc EXCEPT ![w] = l]

ClearLocals(w) ==
    /\ pause_until' = [pause_until EXCEPT ![w] = NULL]
    /\ job' = [job EXCEPT ![w] = NoJob]
    /\ post_jobs' = [post_jobs EXCEPT ![w] = <<>>]
    /\ new_pause_until' = [new_pause_until EXCEPT ![w] = NULL]
    /\ batch_results' = [batch_results EXCEPT ![w] = {}]
    /\ idx' = [idx EXCEPT ![w] = 0]
    /\ items' = [items EXCEPT ![w] = <<>>]

\* `continue` / end of the loop body: the locals of the iteration are dead
NextIteration(w) == Goto(w, "top") /\ ClearLocals(w)

\* an exception leaves worker(): the process ends
Crash(w) == Goto(w, "crashed") /\ ClearLocals(w)

\* cli.py:101  pause_until = get_apify_pause_until()
GetPauseUntil(w) ==
    /\ pc[w] = "top"
    /\ pause_until' = [pause_until EXCEPT ![w] = apify_health.pause_until]
    /\ Goto(w, "fetch")
    /\ UNCHANGED <<now, dbvars, config, velvars, feedvars, job, post_jobs, new_pause_until,
                   batch_results, idx, items>>

\* faulty variant: the post queue is looked at whatever fetch_next_job found
FetchNextJobSelect_then_posts(w) ==
    /\ pc[w] = "fetch"
    /\ Goto(w, "pfetch")
    /\ UNCHANGED <<rq_locked, job>>
    /\ UNCHANGED <<now, run_queue, post_queue, pq_locked, apify_health,
                   post_signals, config, velvars, feedvars, pause_until, post_jobs,
                   new_pause_until, batch_results, idx, items>>

\* cli.py:103  fetch_next_job(), the SELECT .. FOR UPDATE SKIP LOCKED
FetchNextJobSelect(w) ==
    /\ pc[w] = "fetch"
    /\ LET j == fetch_next_job_select(run_queue, rq_locked, now)
       IN  IF j = 0
           THEN /\ Goto(w, "pfetch")
                /\ UNCHANGED <<rq_locked, job>>
           ELSE /\ rq_locked' = rq_locked \cup {j}
                /\ job' = [job EXCEPT ![w] = [id |-> j,
                                              attempt |-> run_queue[j].attempt,
                                              handle |-> run_queue[j].handle]]
                /\ Goto(w, "claim")
    /\ UNCHANGED <<now, run_queue, post_queue, pq_locked, apify_health,
                   post_signals, config, velvars, feedvars, pause_until, post_jobs,
                   new_pause_until, batch_results, idx, items>>

\* fetch_next_job(), the UPDATE .. SET status='running' and the commit
FetchNextJobUpdate(w) ==
    /\ pc[w] = "claim"
    /\ run_queue' = [run_queue EXCEPT ![job[w].id].status = "running"]
    /\ rq_locked' = rq_locked \ {job[w].id}
    /\ Goto(w, "check")
    /\ UNCHANGED <<now, post_queue, pq_locked, apify_health, post_signals,
                   config, velvars, feedvars, localvars>>

\* UPDATE run_queue SET status='retry' ..: commits, or raises UniqueViolation
\* on run_queue_unique_pending, which nothing in worker() catches
MarkJobRetryOrCrash(w, attempt, next_run_at) ==
    IF run_queue_unique_pending_conflict(run_queue, job[w].handle, job[w].id)
    THEN /\ Crash(w)
         /\ UNCHANGED run_queue
    ELSE /\ run_queue' = mark_job_retry(run_queue, job[w].id, attempt, next_run_at)
         /\ NextIteration(w)

\* faulty variant: the claimed job is scraped without looking at pause_until
HandleCooldownCheck_unchecked(w) ==
    /\ pc[w] = "check"
    /\ Goto(w, "scrape")
    /\ UNCHANGED <<run_queue, localvars>>
    /\ UNCHANGED <<now, post_queue, rq_locked, pq_locked, apify_health,
                   post_signals, config, velvars, feedvars>>

\* cli.py:112-116  cooldown check for a claimed handle job
HandleCooldownCheck(w) ==
    /\ pc[w] = "check"
    /\ IF CooldownActive(pause_until[w], now)
       THEN MarkJobRetryOrCrash(w, job[w].attempt, pause_until[w])
       ELSE /\ Goto(w, "scrape")
            /\ UNCHANGED <<run_queue, localvars>>
    /\ UNCHANGED <<now, post_queue, rq_locked, pq_locked, apify_health,
                   post_signals, config, velvars, feedvars>>

\* sync.py:240-284  one scraped item: _apply_velocity(forced d1) writes the
\* post signal, ensure_post_checkpoint_jobs enqueues the checkpoints
IngestItem(w, item) ==
    /\ items' = [items EXCEPT ![w] = <<item>>]
    /\ post_queue' = ensure_post_checkpoint_jobs(post_queue, job[w].handle,
                                                 item.post_url, item.posted_at)
    /\ post_signals' = IF item.posted_at = NULL THEN post_signals
                       ELSE [post_signals EXCEPT ![<<job[w].handle, item.post_url>>] = item.signal]

\* sync.py:221-284  run_actor returned no item, or one item that is ingested
SyncHandleItems(w) ==
    \/ /\ items' = [items EXCEPT ![w] = <<>>]
       /\ UNCHANGED <<post_queue, post_signals>>
    \/ \E u \in scenario.urls, pa \in PostedAts \cup {NULL} :
         \E signal \in ClassifiedSignals("d1", now - pa) :
            IngestItem(w, [post_url |-> u, posted_at |-> pa, signal |-> signal])

\* cli.py:119-121  sync_handle returns
SyncHandleOk(w) ==
    /\ pc[w] = "scrape"
    /\ SyncHandleItems(w)
    /\ Goto(w, "rec_succ")
    /\ UNCHANGED <<now, run_queue, rq_locked, pq_locked, apify_health, config, velvars, feedvars,
                   pause_until, job, post_jobs, new_pause_until, batch_results, idx>>

\* cli.py:129  sync_handle raises: run_actor fails (sync.py:221), or the
\* spreadsheet calls after the items were ingested fail (sync.py:301-304)
SyncHandleFail(w) ==
    /\ pc[w] = "scrape"
    /\ SyncHandleItems(w)
    /\ Goto(w, "rec_fail")
    /\ UNCHANGED <<now, run_queue, rq_locked, pq_locked, apify_health, config, velvars, feedvars,
                   pause_until, job, post_jobs, new_pause_until, batch_results, idx>>

\* cli.py:122  record_apify_success(); the items of sync_handle are gone
HandleRecordSuccess(w) ==
    /\ pc[w] = "rec_succ"
    /\ apify_health' = record_apify_success(apify_health)
    /\ items' = [items EXCEPT ![w] = <<>>]
    /\ Goto(w, "mark_succ")
    /\ UNCHANGED <<now, run_queue, post_queue, rq_locked, pq_locked,
                   post_signals, config, velvars, feedvars, pause_until, job, post_jobs,
                   new_pause_until, batch_results, idx>>

\* cli.py:124  mark_job_success(job["id"]), still inside the try block.
\* Where the calls that follow cannot raise they change nothing of the
\* state, and the iteration ends here
HandleMarkSuccess(w) ==
    /\ pc[w] = "mark_succ"
    /\ run_queue' = mark_job_success(run_queue, job[w].id)
    /\ IF scenario.db_faults
       THEN Goto(w, "finish") /\ UNCHANGED localvars
       ELSE NextIteration(w)
    /\ UNCHANGED <<now, post_queue, rq_locked, pq_locked, apify_health,
                   post_signals, config, velvars, feedvars>>

\* cli.py:125-128  log_run_finish, get_feed_by_subscriber and
\* refresh_feeder_pair_metrics return: the iteration ends
HandleFinish(w) ==
    /\ pc[w] = "finish"
    /\ NextIteration(w)
    /\ UNCHANGED <<now, dbvars, config, velvars, feedvars>>

\* cli.py:125-129  one of these calls raises (each opens its own connection,
\* db.py:12-14): the except clause of the same try block takes over
HandleFinishFail(w) ==
    /\ pc[w] = "finish"
    /\ scenario.db_faults
    /\ Goto(w, "rec_fail")
    /\ UNCHANGED <<now, dbvars, config, velvars, feedvars, localvars>>

\* cli.py:131-133  _, new_pause_until = record_apify_failure(..)
HandleRecordFailure(w) ==
    /\ pc[w] = "rec_fail"
    /\ LET r == record_apify_failure(apify_health, trigger_failures, cooldown_hours, now)
       IN  /\ apify_health' = r.row
           /\ new_pause_until' = [new_pause_until EXCEPT ![w] = r.pause_until]
    /\ items' = [items EXCEPT ![w] = <<>>]
    /\ Goto(w, "mark_fail")
    /\ UNCHANGED <<now, run_queue, post_queue, rq_locked, pq_locked,
                   post_signals, config, velvars, feedvars, pause_until, job, post_jobs,
                   batch_results, idx>>

\* cli.py:136-138  backoff time, overridden by a pause this failure triggered
RetryTime(attempt, npu, t) ==
    LET next_time == _next_retry_time(attempt, t)
    IN  IF npu # NULL /\ npu > next_time THEN npu ELSE next_time

\* cli.py:134-145  retry with backoff, or terminal failed
HandleMarkFailure(w) ==
    /\ pc[w] = "mark_fail"
    /\ LET attempt == job[w].attempt + 1
       IN  IF attempt <= Len(RETRY_BACKOFF_MINUTES)
           THEN MarkJobRetryOrCrash(w, attempt, RetryTime(attempt, new_pause_until[w], now))
           ELSE /\ run_queue' = mark_job_failed(run_queue, job[w].id)
                /\ NextIteration(w)
    /\ UNCHANGED <<now, post_queue, rq_locked, pq_locked, apify_health,
                   post_signals, config, velvars, feedvars>>

\* cli.py:149  fetch_next_post_job_batch(post_batch_size), the locking SELECT
FetchPostBatchSelect(w) ==
    /\ pc[w] = "pfetch"
    /\ LET ids == fetch_next_post_job_batch_select(post_queue, pq_locked, now,
                                                   post_batch_size)
       IN  IF ids = <<>>
           THEN /\ NextIteration(w)
                /\ UNCHANGED pq_locked
           ELSE /\ pq_locked' = pq_locked \cup {ids[i] : i \in 1..Len(ids)}
                /\ post_jobs' = [post_jobs EXCEPT ![w] =
                                   [i \in 1..Len(ids) |-> JobRow(post_queue, ids[i])]]
                /\ Goto(w, "pclaim")
                /\ UNCHANGED <<pause_until, job, new_pause_until, batch_results, idx, items>>
    /\ UNCHANGED <<now, run_queue, post_queue, rq_locked, apify_health,
                   post_signals, config, velvars, feedvars>>

\* fetch_next_post_job_batch, the UPDATE .. SET status='running' and the commit
FetchPostBatchUpdate(w) ==
    /\ pc[w] = "pclaim"
    /\ post_queue' = [i \in 1..Len(post_queue) |->
                        IF i \in SeqIds(post_jobs[w])
                        THEN [post_queue[i] EXCEPT !.status = "running"]
                        ELSE post_queue[i]]
    /\ pq_locked' = pq_locked \ SeqIds(post_jobs[w])
    /\ Goto(w, "pcheck")
    /\ UNCHANGED <<now, run_queue, rq_locked, apify_health, post_signals,
                   config, velvars, feedvars, localvars>>

RECURSIVE CooldownAll_consuming(_, _, _)
\* faulty variant: the return of a job under cooldown uses up an attempt
CooldownAll_consuming(q, jobs, p) ==
    IF jobs = <<>> THEN q
    ELSE CooldownAll_consuming(mark_post_job_retry(q, Head(jobs).id, Head(jobs).attempt + 1, p),
                               Tail(jobs), p)

RECURSIVE CooldownAll(_, _, _)
\* cli.py:158-159  for pj in post_jobs: mark_post_job_retry(pj.id, pj.attempt, pause_until, ..)
CooldownAll(q, jobs, p) ==
    IF jobs = <<>> THEN q
    ELSE CooldownAll(mark_post_job_retry(q, Head(jobs).id, Head(jobs).attempt, p),
                     Tail(jobs), p)

\* cli.py:157-161  cooldown check for a claimed post batch
PostCooldownCheck(w) ==
    /\ pc[w] = "pcheck"
    /\ IF CooldownActive(pause_until[w], now)
       THEN /\ post_queue' = CooldownAll(post_queue, post_jobs[w], pause_until[w])
            /\ NextIteration(w)
       ELSE /\ Goto(w, "pscrape")
            /\ UNCHANGED <<post_queue, localvars>>
    /\ UNCHANGED <<now, run_queue, rq_locked, pq_locked, apify_health,
                   post_signals, config, velvars, feedvars>>

\* cli.py:164-172  sync_post_checkpoint_batch returns the posts it found,
\* having classified each of them
SyncPostBatchOk(w) ==
    /\ pc[w] = "pscrape"
    /\ LET urls == {post_jobs[w][i].url : i \in 1..Len(post_jobs[w])}
           h == post_jobs[w][1].handle
           checkpoint == post_jobs[w][1].checkpoint
       IN  \E found \in SUBSET urls :
           \E tags \in [found -> ClassifiedSignals(checkpoint, 0)] :
             /\ batch_results' = [batch_results EXCEPT ![w] = found]
             /\ post_signals' = [p \in Posts |->
                                   IF p[1] = h /\ p[2] \in found
                                   THEN tags[p[2]] ELSE post_signals[p]]
    /\ Goto(w, "prec_succ")
    /\ UNCHANGED <<now, run_queue, post_queue, rq_locked, pq_locked,
                   apify_health, config, velvars, feedvars, pause_until, job, post_jobs,
                   new_pause_until, idx, items>>

\* cli.py:195  sync_post_checkpoint_batch raises
SyncPostBatchFail(w) ==
    /\ pc[w] = "pscrape"
    /\ Goto(w, "prec_fail")
    /\ UNCHANGED <<now, dbvars, config, velvars, feedvars, localvars>>

\* cli.py:173  record_apify_success()
PostRecordSuccess(w) ==
    /\ pc[w] = "prec_succ"
    /\ apify_health' = record_apify_success(apify_health)
    /\ idx' = [idx EXCEPT ![w] = 1]
    /\ Goto(w, "presolve")
    /\ UNCHANGED <<now, run_queue, post_queue, rq_locked, pq_locked,
                   post_signals, config, velvars, feedvars, pause_until, job, post_jobs,
                   new_pause_until, batch_results, items>>

\* faulty variant: a job missing in the result is retried at no cost
resolve_post_job_same_attempt(q, pj, signals, results, t) ==
    IF /\ pj.checkpoint = "d21" /\ pj.requires_d7_hot
       /\ ~is_d7_hot(signals, pj.handle, pj.url)
    THEN mark_post_job_skipped(q, pj.id)
    ELSE IF pj.url \notin results
    THEN mark_post_job_retry(q, pj.id, pj.attempt, _next_retry_time(pj.attempt + 1, t))
    ELSE mark_post_job_success(q, pj.id)

\* cli.py:176-194  the body of `for pj in post_jobs` for one job
resolve_post_job(q, pj, signals, results, t) ==
    LET attempt == pj.attempt + 1
    IN  IF /\ pj.checkpoint = "d21" /\ pj.requires_d7_hot
           /\ ~is_d7_hot(signals, pj.handle, pj.url)
        THEN mark_post_job_skipped(q, pj.id)
        ELSE IF pj.url \notin results
        THEN IF attempt <= Len(RETRY_BACKOFF_MINUTES)
             THEN mark_post_job_retry(q, pj.id, attempt, _next_retry_time(attempt, t))
             ELSE mark_post_job_failed(q, pj.id)
        ELSE mark_post_job_success(q, pj.id)

\* cli.py:175-194  one iteration of `for pj in post_jobs`
PostResolveJob(w) ==
    /\ pc[w] = "presolve"
    /\ post_queue' = resolve_post_job(post_queue, post_jobs[w][idx[w]],
                                      post_signals, batch_results[w], now)
    /\ IF idx[w] = Len(post_jobs[w])
       THEN NextIteration(w)
       ELSE /\ idx' = [idx EXCEPT ![w] = idx[w] + 1]
            /\ UNCHANGED <<pc, pause_until, job, post_jobs, new_pause_until,
                           batch_results, items>>
    /\ UNCHANGED <<now, run_queue, rq_locked, pq_locked, apify_health,
                   post_signals, config, velvars, feedvars>>

\* cli.py:197-199  _, new_pause_until = record_apify_failure(..)
PostRecordFailure(w) ==
    /\ pc[w] = "prec_fail"
    /\ LET r == record_apify_failure(apify_health, trigger_failures, cooldown_hours, now)
       IN  /\ apify_health' = r.row
           /\ new_pause_until' = [new_pause_until EXCEPT ![w] = r.pause_until]
    /\ Goto(w, "pmark_fail")
    /\ UNCHANGED <<now, run_queue, post_queue, rq_locked, pq_locked,
                   post_signals, config, velvars, feedvars, pause_until, job, post_jobs,
                   batch_results, idx, items>>

RECURSIVE FailAll(_, _, _, _)
\* cli.py:200-208  for pj in post_jobs: retry with backoff, or terminal failed
FailAll(q, jobs, npu, t) ==
    IF jobs = <<>> THEN q
    ELSE LET pj == Head(jobs)
             attempt == pj.attempt + 1
             q1 == IF attempt <= Len(RETRY_BACKOFF_MINUTES)
                   THEN mark_post_job_retry(q, pj.id, attempt, RetryTime(attempt, npu, t))
                   ELSE mark_post_job_failed(q, pj.id)
         IN  FailAll(q1, Tail(jobs), npu, t)

\* cli.py:200-208  every job of the failed batch is resolved
PostMarkFailure(w) ==
    /\ pc[w] = "pmark_fail"
    /\ post_queue' = FailAll(post_queue, post_jobs[w], new_pause_until[w], now)
    /\ NextIteration(w)
    /\ UNCHANGED <<now, run_queue, rq_locked, pq_locked, apify_health,
                   post_signals, config, velvars, feedvars>>

WorkerStep(w) ==
    \/ GetPauseUntil(w)
    \/ FetchNextJobSelect(w)
    \/ FetchNextJobUpdate(w)
    \/ HandleCooldownCheck(w)
    \/ SyncHandleOk(w)
    \/ SyncHandleFail(w)
    \/ HandleRecordSuccess(w)
    \/ HandleMarkSuccess(w)
    \/ HandleFinish(w)
    \/ HandleFinishFail(w)
    \/ HandleRecordFailure(w)
    \/ HandleMarkFailure(w)
    \/ FetchPostBatchSelect(w)
    \/ FetchPostBatchUpdate(w)
    \/ PostCooldownCheck(w)
    \/ SyncPostBatchOk(w)
    \/ SyncPostBatchFail(w)
    \/ PostRecordSuccess(w)
    \/ PostResolveJob(w)
    \/ PostRecordFailure(w)
    \/ PostMarkFailure(w)

Next ==
    \/ Tick
    \/ \E h \in Handles : EnqueueHandle(h)
    \/ \E w \in scenario.workers : WorkerStep(w)

Spec == Init /\ [][Next]_vars

TypeOK ==
    /\ now \in 0..scenario.horizon
    /\ \A i \in RunIds : run_queue[i].status \in {"pending", "running", "retry", "done", "failed"}
    /\ \A i \in PostIds : post_queue[i].status \in
          {"pending", "running", "retry", "done", "failed", "skipped"}


\* ------------------------------------------------- circuit breaker alone
\* record_apify_failure / record_apify_success called directly, under every
\* configuration of the trigger and of the cooldown
HealthScenario ==
    [workers |-> {}, handles |-> {}, rows |-> 0, urls |-> {}, horizon |-> MaxTime, db_faults |-> FALSE]

InitHealth ==
    /\ InitStore
    /\ trigger_failures \in TriggerValues
    /\ cooldown_hours \in CooldownValues
    /\ InitIdle
    /\ scenario = HealthScenario

RecordFailureCall ==
    /\ apify_health' = record_apify_failure(apify_health, trigger_failures,
                                            cooldown_hours, now).row
    /\ UNCHANGED <<now, run_queue, post_queue, rq_locked, pq_locked,
                   post_signals, config, velvars, feedvars, pc, localvars>>

RecordSuccessCall ==
    /\ apify_health' = record_apify_success(apify_health)
    /\ UNCHANGED <<now, run_queue, post_queue, rq_locked, pq_locked,
                   post_signals, config, velvars, feedvars, pc, localvars>>

NextHealth ==
    \/ Tick
    \/ RecordFailureCall
    \/ RecordSuccessCall

SpecHealth == InitHealth /\ [][NextHealth]_vars


\* ------------------------------------------------------ batch fetch alone
\* fetch_next_post_job_batch(post_batch_size) called by two processes on a
\* post queue that holds up to MaxSameKey rows of one (handle, checkpoint)
\* and at most one row that is of another handle, of another checkpoint,
\* not yet due or already done
BatchScenario ==
    [workers |-> Workers, handles |-> {}, rows |-> 0, urls |-> {}, horizon |-> 0, db_faults |-> FALSE]

SameKeyRow(i) ==
    [handle |-> "a", url |-> "u" \o ToString(i), checkpoint |-> "d3",
     requires_d7_hot |-> FALSE, status |-> "pending", attempt |-> 0, next_run_at |-> 0]

OddRows ==
    {[SameKeyRow(0) EXCEPT !.handle = "b"],
     [SameKeyRow(0) EXCEPT !.checkpoint = "d7"],
     [SameKeyRow(0) EXCEPT !.next_run_at = 1],
     [SameKeyRow(0) EXCEPT !.status = "done"]}

BatchQueues ==
    {[i \in 1..n |-> SameKeyRow(i)] : n \in 0..MaxSameKey}
    \cup {[i \in 1..(n + 1) |-> IF i < k THEN SameKeyRow(i)
                                ELSE IF i = k THEN odd ELSE SameKeyRow(i - 1)] :
             n \in 0..MaxSameKey, k \in 1..(MaxSameKey + 1), odd \in OddRows}

InitBatch ==
    /\ now = 0
    /\ run_queue = <<>>
    /\ post_queue \in BatchQueues
    /\ rq_locked = {}
    /\ pq_locked = {}
    /\ apify_health = [consecutive_failures |-> 0, pause_until |-> NULL]
    /\ post_signals = [p \in Posts |-> NoSignal]
    /\ post_snapshots = <<>>
    /\ checkpoint_metrics = <<>>
    /\ norm = NoNorm
    /\ call = NoCall
    /\ pct_values = <<>>
    /\ pct_value = 0
    /\ pct = NoPercentile
    /\ vtag = NoTag
    /\ InitFeed
    /\ pc = [w \in Workers |-> "pfetch"]
    /\ pause_until = [w \in Workers |-> NULL]
    /\ job = [w \in Workers |-> NoJob]
    /\ post_jobs = [w \in Workers |-> <<>>]
    /\ new_pause_until = [w \in Workers |-> NULL]
    /\ batch_results = [w \in Workers |-> {}]
    /\ idx = [w \in Workers |-> 0]
    /\ items = [w \in Workers |-> <<>>]
    /\ trigger_failures = 2
    /\ cooldown_hours = 2
    /\ InitIdle
    /\ scenario = BatchScenario

\* the caller takes the batch and calls again
BatchReturn(w) ==
    /\ pc[w] \in {"pcheck", "top"}
    /\ Goto(w, "pfetch")
    /\ ClearLocals(w)
    /\ UNCHANGED <<now, dbvars, config, velvars, feedvars>>

NextBatch ==
    \E w \in Workers :
        \/ FetchPostBatchSelect(w)
        \/ FetchPostBatchUpdate(w)
        \/ BatchReturn(w)

SpecBatch == InitBatch /\ [][NextBatch]_vars

\* ------------------------------------------------------- classifier alone
\* _apply_velocity called for one post "u1", posted at time 0, of a handle
\* sheet whose other posts (the cohort) were snapshotted before: one image
\* and PeerCounts videos, each with the same counts at every checkpoint,
\* the views 1..MaxPeerValues over the videos.  The clock goes through the
\* ages in Ages
PeerCounts == {0, 11, 19}
Ages == {0, 24, 48, 168, 504}
ItemViews == {NULL, 0, 3}

VelocityScenario ==
    [workers |-> {}, handles |-> {}, rows |-> 0, urls |-> {}, horizon |-> 21 * 24, db_faults |-> FALSE]

PeerRow(i) ==
    LET t == IF i = 0 THEN [views |-> NULL, likes |-> 9, comments |-> 0]
             ELSE [views |-> 1 + (i % MaxPeerValues), likes |-> NULL, comments |-> NULL]
    IN  [media_type |-> IF i = 0 THEN "Image" ELSE "Video",
         d1 |-> t, d3 |-> t, d7 |-> t, d21 |-> t]

Cohort(n) ==
    [u \in {"p" \o ToString(i) : i \in 0..n} |->
        PeerRow(CHOOSE i \in 0..n : u = "p" \o ToString(i))]

InitVelocity ==
    /\ InitStore
    /\ trigger_failures = 2
    /\ cooldown_hours = 2
    /\ InitIdle
    /\ scenario = VelocityScenario

\* the scraper's items for the post: a video with or without counts, with or
\* without a timestamp
ScrapedItems ==
    {[post_url |-> "u1", type |-> "Video", views |-> v, likes |-> NULL,
      comments |-> NULL, posted_at |-> pa] : v \in ItemViews, pa \in {0, NULL}}

ApplyVelocity(item, forced_checkpoint) ==
    /\ \E r \in {_apply_velocity([post_snapshots |-> post_snapshots,
                                   post_signals |-> post_signals,
                                   checkpoint_metrics |-> checkpoint_metrics,
                                   norm |-> NoNorm],
                                  "a", item, forced_checkpoint, now)} :
           /\ post_snapshots' = r.post_snapshots
           /\ post_signals' = r.post_signals
           /\ checkpoint_metrics' = r.checkpoint_metrics
           /\ norm' = r.norm
    /\ call' = [item |-> item, forced_checkpoint |-> forced_checkpoint]
    /\ UNCHANGED <<now, run_queue, post_queue, rq_locked, pq_locked, apify_health,
                   config, feedvars, pc, localvars, pct_values, pct_value, pct, vtag>>

\* sync.py:271  sync_handle classifies every scraped item under forced d1
SyncHandleCall ==
    \E item \in ScrapedItems : ApplyVelocity(item, "d1")

\* sync.py:369  a checkpoint job classifies under its own checkpoint, which
\* is due 72, 168 or 504 hours after posted_at
SyncPostCheckpointCall ==
    \E item \in ScrapedItems : \E i \in 1..3 :
        LET cp == CheckpointRows(item.posted_at)[i]
        IN  /\ item.posted_at = NULL \/ cp.run_at <= now
            /\ ApplyVelocity(item, cp.checkpoint)

\* forced_checkpoint=None
UnforcedCall ==
    \E item \in ScrapedItems : ApplyVelocity(item, "")

\* the other posts of the sheet reach the snapshot table
CohortArrives ==
    /\ post_snapshots = <<>>
    /\ call = NoCall
    /\ \E n \in PeerCounts : post_snapshots' = Cohort(n)
    /\ UNCHANGED <<now, dbvars, config, feedvars, pc, localvars, checkpoint_metrics, norm,
                   call, pct_values, pct_value, pct, vtag>>

\* time passes
Elapse ==
    /\ \E a \in Ages : a > now /\ now' = a
    /\ UNCHANGED <<dbvars, config, velvars, feedvars, pc, localvars>>

NextVelocity ==
    \/ CohortArrives
    \/ Elapse
    \/ SyncHandleCall
    \/ SyncPostCheckpointCall
    \/ UnforcedCall

SpecVelocity == InitVelocity /\ [][NextVelocity]_vars

\* ------------------------------------------------ percentile and tag alone
\* _percentile(pool, value) for a value of the pool (the pool holds the
\* post's own row), then _velocity_tag of the result, as in
\* _velocity_from_snapshots.  The pools: every list of up to MaxPool values
\* in 0..MaxPoolValue, and the lists 1..U for U up to MaxUnique
PercentileScenario ==
    [workers |-> {}, handles |-> {}, rows |-> 0, urls |-> {}, horizon |-> 0, db_faults |-> FALSE]

Pools ==
    UNION {[1..n -> 0..MaxPoolValue] : n \in 1..MaxPool}
    \cup {[i \in 1..U |-> i] : U \in 1..MaxUnique}

InitPercentile ==
    /\ now = 0
    /\ run_queue = <<>>
    /\ post_queue = <<>>
    /\ rq_locked = {}
    /\ pq_locked = {}
    /\ apify_health = [consecutive_failures |-> 0, pause_until |-> NULL]
    /\ post_signals = [p \in Posts |-> NoSignal]
    /\ post_snapshots = <<>>
    /\ checkpoint_metrics = <<>>
    /\ norm = NoNorm
    /\ call = NoCall
    /\ pct_values \in Pools
    /\ pct_value \in {pct_values[i] : i \in DOMAIN pct_values}
    /\ pct = NoPercentile
    /\ vtag = NoTag
    /\ InitFeed
    /\ pc = [w \in Workers |-> "top"]
    /\ pause_until = [w \in Workers |-> NULL]
    /\ job = [w \in Workers |-> NoJob]
    /\ post_jobs = [w \in Workers |-> <<>>]
    /\ new_pause_until = [w \in Workers |-> NULL]
    /\ batch_results = [w \in Workers |-> {}]
    /\ idx = [w \in Workers |-> 0]
    /\ items = [w \in Workers |-> <<>>]
    /\ trigger_failures = 2
    /\ cooldown_hours = 2
    /\ InitIdle
    /\ scenario = PercentileScenario

\* sync.py:640  percentile = _percentile(pool, metric_per_day)
PercentileCall ==
    /\ pct = NoPercentile
    /\ pct' = _percentile(pct_values, pct_value)
    /\ UNCHANGED <<now, dbvars, config, feedvars, pc, localvars, post_snapshots,
                   checkpoint_metrics, norm, call, pct_values, pct_value, vtag>>

\* sync.py:641  tag = _velocity_tag(percentile)
VelocityTagCall ==
    /\ pct # NoPercentile
    /\ vtag' = _velocity_tag(pct)
    /\ UNCHANGED <<now, dbvars, config, feedvars, pc, localvars, post_snapshots,
                   checkpoint_metrics, norm, call, pct_values, pct_value, pct>>

NextPercentile ==
    \/ PercentileCall
    \/ VelocityTagCall

SpecPercentile == InitPercentile /\ [][NextPercentile]_vars

\* ---------------------------------------------------- upsert_snapshot alone
\* upsert_snapshot called for the post "u1" of a sheet that holds one other
\* post.  The row of "u1" is absent or was written before; a row written
\* before the media_type column was added (init_db ALTER TABLE) has it NULL
NoWorkers ==
    [workers |-> {}, handles |-> {}, rows |-> 0, urls |-> {}, horizon |-> 0, db_faults |-> FALSE]

Triples == {[views |-> v, likes |-> l, comments |-> NULL] : v \in {NULL, 3}, l \in {NULL, 1}}

StoredRows ==
    {[media_type |-> m, d1 |-> t1, d3 |-> NoTriple, d7 |-> t7, d21 |-> NoTriple] :
        m \in {NullText, "", "Video"}, t1 \in Triples, t7 \in Triples}

InitSnapshot ==
    /\ now = 0
    /\ run_queue = <<>>
    /\ post_queue = <<>>
    /\ rq_locked = {}
    /\ pq_locked = {}
    /\ apify_health = [consecutive_failures |-> 0, pause_until |-> NULL]
    /\ post_signals = [p \in Posts |-> NoSignal]
    /\ \/ post_snapshots = [u \in {"p1"} |-> PeerRow(1)]
       \/ \E row \in StoredRows :
              post_snapshots = [u \in {"p1", "u1"} |-> IF u = "p1" THEN PeerRow(1) ELSE row]
    /\ checkpoint_metrics = <<>>
    /\ norm = NoNorm
    /\ call = NoCall
    /\ pct_values = <<>>
    /\ pct_value = 0
    /\ pct = NoPercentile
    /\ vtag = NoTag
    /\ InitFeed
    /\ pc = [w \in Workers |-> "top"]
    /\ pause_until = [w \in Workers |-> NULL]
    /\ job = [w \in Workers |-> NoJob]
    /\ post_jobs = [w \in Workers |-> <<>>]
    /\ new_pause_until = [w \in Workers |-> NULL]
    /\ batch_results = [w \in Workers |-> {}]
    /\ idx = [w \in Workers |-> 0]
    /\ items = [w \in Workers |-> <<>>]
    /\ trigger_failures = 2
    /\ cooldown_hours = 2
    /\ InitIdle
    /\ scenario = NoWorkers

\* sync.py:484  upsert_snapshot(.., norm["post_url"], norm.get("media_type") or "",
\* .., checkpoint, views, likes, comments); "d2" is a checkpoint outside field_map
UpsertSnapshotCall ==
    \E type \in {"", "Video", "Image"}, checkpoint \in Checkpoints \cup {"d2"},
       t \in Triples :
        /\ post_snapshots' = upsert_snapshot(post_snapshots, "u1", type, checkpoint,
                                             t.views, t.likes, t.comments)
        /\ call' = [item |-> [post_url |-> "u1", type |-> type, views |-> t.views,
                              likes |-> t.likes, comments |-> t.comments,
                              posted_at |-> 0],
                    forced_checkpoint |-> checkpoint]
        /\ UNCHANGED <<now, dbvars, config, feedvars, pc, localvars, checkpoint_metrics, norm,
                       pct_values, pct_value, pct, vtag>>

NextSnapshot == UpsertSnapshotCall

SpecSnapshot == InitSnapshot /\ [][NextSnapshot]_vars

\* ------------------------------------------------------ signal aggregates
\* exact fractions <<numerator, denominator>> in lowest terms, denominator > 0
RECURSIVE Gcd(_, _)
Gcd(a, b) == IF b = 0 THEN a ELSE Gcd(b, a % b)

Frac(n, d) ==
    LET g == Gcd(IF n < 0 THEN -n ELSE n, d)
    IN  <<(IF n < 0 THEN -((-n) \div g) ELSE n \div g), d \div g>>

FAdd(x, y) == Frac(x[1] * y[2] + y[1] * x[2], x[2] * y[2])
FSub(x, y) == Frac(x[1] * y[2] - y[1] * x[2], x[2] * y[2])
FMul(x, y) == Frac(x[1] * y[1], x[2] * y[2])
FDiv(x, y) == Frac(x[1] * y[2], x[2] * y[1])
FLeq(x, y) == x[1] * y[2] <= y[1] * x[2]
FMin(x, y) == IF FLeq(x, y) THEN x ELSE y
FMax(x, y) == IF FLeq(x, y) THEN y ELSE x

Windows == {"d1", "d2", "d3", "d7", "d21"}

\* 1.0 / (1.0 + GREATEST(0.0, age in days)); the clock of this part counts days
decay_weight(row, t) == Frac(1, 1 + Max(0, t - row.checkpoint_at))

\* faulty variant: the age is measured from the newest row, not from NOW()
decay_weight_from_newest(row, t) == Frac(1, 1 + Max(0, 1 - row.checkpoint_at))

\* SUM(weight) or SUM(velocity_value * weight) over the rows S
RECURSIVE weighted_sum(_, _, _, _)
weighted_sum(rows, S, t, with_value) ==
    IF S = {} THEN Frac(0, 1)
    ELSE LET u == CHOOSE u \in S : TRUE
             w == decay_weight(rows[u], t)
         IN  FAdd(IF with_value THEN FMul(Frac(rows[u].velocity_value, 1), w) ELSE w,
                  weighted_sum(rows, S \ {u}, t, with_value))

\* COALESCE(SUM(v * w) / NULLIF(SUM(w), 0), 0)
time_decay_average(rows, S, t) ==
    IF S = {} THEN Frac(0, 1)
    ELSE FDiv(weighted_sum(rows, S, t, TRUE), weighted_sum(rows, S, t, FALSE))

\* WHERE checkpoint = window AND checkpoint_at >= NOW() - lookback AND
\* velocity_value IS NOT NULL
qualifying(rows, window_key, t, lookback_days) ==
    {u \in DOMAIN rows : /\ rows[u].checkpoint = window_key
                         /\ rows[u].checkpoint_at >= t - lookback_days
                         /\ rows[u].velocity_value # NULL}

\* COALESCE(pc.media_type, core.media_type, 'Unknown'), COALESCE(velocity_tag, 'none')
media_key(row) == IF text_or(row.media_type) = "" THEN "Unknown" ELSE row.media_type
tag_key(row) == IF row.velocity_tag = NoTag THEN <<"none">> ELSE row.velocity_tag

\* one row of signal_aggregates from a group of n of the total_rows
aggregate_row(rows, group, total, t, full_confidence) ==
    LET n == Cardinality(group)
        adoption_rate == Frac(n, Cardinality(total))
        velocity_delta == FSub(time_decay_average(rows, group, t),
                               time_decay_average(rows, total, t))
    IN  [adoption_rate |-> adoption_rate,
         velocity_delta |-> velocity_delta,
         saturation_score |->
             FMax(Frac(0, 1), FMin(Frac(1, 1),
                 FMul(adoption_rate, IF FLeq(velocity_delta, Frac(0, 1)) THEN Frac(1, 1)
                                     ELSE Frac(1, 2)))),
         confidence |-> FMin(Frac(1, 1), Frac(n, full_confidence)),
         sample_size |-> n]

\* the rows one rebuild inserts for a window: GROUP BY .. HAVING COUNT(*) >= 2
window_aggregates(rows, window_key, t, lookback_days) ==
    LET total == qualifying(rows, window_key, t, lookback_days)
        media(k) == {u \in total : media_key(rows[u]) = k}
        tags(k) == {u \in total : tag_key(rows[u]) = k}
        keys == {<<"media_type", media_key(rows[u]), window_key>> : u \in total}
                \cup {<<"velocity_tag", tag_key(rows[u]), window_key>> : u \in total}
        group(k) == IF k[1] = "media_type" THEN media(k[2]) ELSE tags(k[2])
    IN  [k \in {k \in keys : Cardinality(group(k)) >= 2} |->
            aggregate_row(rows, group(k), total, t,
                          IF k[1] = "media_type" THEN 15 ELSE 12)]

\* faulty variant: the window's rows of the prior rebuild are not deleted
rebuild_signal_aggregates_undeleted(aggregates, rows, t, lookback_days) ==
    LET built(w) == window_aggregates(rows, w, t, lookback_days)
        new == UNION {DOMAIN built(w) : w \in Windows}
    IN  [k \in DOMAIN aggregates \cup new |->
            IF k \in new THEN built(k[3])[k] ELSE aggregates[k]]

\* for every window: DELETE the window's rows, then insert the groups
rebuild_signal_aggregates(aggregates, rows, t, lookback_days) ==
    LET kept == {k \in DOMAIN aggregates : k[3] \notin Windows}
        built(w) == window_aggregates(rows, w, t, lookback_days)
        new == UNION {DOMAIN built(w) : w \in Windows}
    IN  [k \in kept \cup new |-> IF k \in new THEN built(k[3])[k] ELSE aggregates[k]]

\* rebuild_signal_aggregates over the checkpoint metrics of MetricPosts, drawn
\* from the checkpoints, tags, media types and velocities below and written
\* on day 0 or 1 (the metric of "u3" can be of another checkpoint).  The
\* first rebuild runs on day 1; no metric is written afterwards
MetricPosts == {"u1", "u2", "u3"}
RebuildDays == {1, 2, 30, 31}
lookback_days == 30

MetricRows(u) ==
    [checkpoint : IF u = "u3" THEN {"d1", "d7"} ELSE {"d1"}, checkpoint_at : {0, 1},
     velocity_value : {NULL, 0, 10}, velocity_tag : {FIRE, NoTag},
     media_type : {"Video", NullText}]

InitAggregates ==
    /\ now = 1
    /\ run_queue = <<>>
    /\ post_queue = <<>>
    /\ rq_locked = {}
    /\ pq_locked = {}
    /\ apify_health = [consecutive_failures |-> 0, pause_until |-> NULL]
    /\ post_signals = [p \in Posts |-> NoSignal]
    /\ post_snapshots = <<>>
    /\ checkpoint_metrics = <<>>
    /\ norm = NoNorm
    /\ call = NoCall
    /\ pct_values = <<>>
    /\ pct_value = 0
    /\ pct = NoPercentile
    /\ vtag = NoTag
    /\ alert_candidates = {}
    /\ alert_engine_state = [last_hot_scan_at |-> NULL, last_pattern_scan_at |-> NULL]
    /\ stream_rows = <<>>
    /\ scan = <<>>
    /\ feed_metrics \in {m \in [MetricPosts -> UNION {MetricRows(u) : u \in MetricPosts}] :
                            \A u \in MetricPosts : m[u] \in MetricRows(u)}
    /\ signal_aggregates = <<>>
    /\ rebuilt_at = NULL
    /\ pc = [w \in Workers |-> "top"]
    /\ pause_until = [w \in Workers |-> NULL]
    /\ job = [w \in Workers |-> NoJob]
    /\ post_jobs = [w \in Workers |-> <<>>]
    /\ new_pause_until = [w \in Workers |-> NULL]
    /\ batch_results = [w \in Workers |-> {}]
    /\ idx = [w \in Workers |-> 0]
    /\ items = [w \in Workers |-> <<>>]
    /\ trigger_failures = 2
    /\ cooldown_hours = 2
    /\ InitIdle
    /\ scenario = [NoWorkers EXCEPT !.horizon = 31]

\* cli.py:271  rebuild_signal_aggregates_for_subscriber(.., lookback_days=30)
RebuildCall ==
    /\ rebuilt_at # now
    /\ signal_aggregates' = rebuild_signal_aggregates(signal_aggregates, feed_metrics,
                                                      now, lookback_days)
    /\ rebuilt_at' = now
    /\ UNCHANGED <<now, dbvars, config, velvars, pc, localvars, feed_metrics,
                   alert_candidates, alert_engine_state, stream_rows, scan>>

\* days pass
ElapseDays ==
    /\ \E d \in RebuildDays : d > now /\ now' = d
    /\ UNCHANGED <<dbvars, config, velvars, feedvars, pc, localvars>>

NextAggregates ==
    \/ RebuildCall
    \/ ElapseDays

SpecAggregates == InitAggregates /\ [][NextAggregates]_vars

\* ------------------------------------------------------------ alert engine
\* One feed.  The clock of this part counts hours, a UTC day is 24 of them.
\* Scores are in hundredths, priorities in ten-thousandths
max_per_feed == 3

Candidate(feeder_id, alert_type, impact, confidence, freshness, novelty, actionability, title) ==
    [feeder_id |-> feeder_id, alert_type |-> alert_type, impact |-> impact,
     confidence |-> confidence, freshness |-> freshness, novelty |-> novelty,
     actionability |-> actionability, title |-> title]

\* faulty variant: impact alone
priority_impact_only(candidate) == candidate.impact * 100

\* alerts.py:37-45
priority(candidate) ==
    candidate.impact * 35 + candidate.confidence * 25 + candidate.freshness * 20
    + candidate.novelty * 10 + candidate.actionability * 10

\* the candidates the rules build (alerts.py:153-168, 282-297, 410-425,
\* 530-545, 372-387); feeder 1 has handle "a", feeder 2 handle "b"
velocity_spike(feeder_id) ==
    Candidate(feeder_id, "velocity_spike", 90, 80, 95, 75, 90,
              IF feeder_id = 1 THEN "Velocity spike on a" ELSE "Velocity spike on b")
format_win == Candidate(1, "format_win", 72, 70, 68, 70, 80, "Format win on a")
sector_fatigue(confidence) ==
    Candidate(NULL, "sector_fatigue", 80, confidence, 68, 78, 82, "Format fatigue in Video")
breakout_post == Candidate(2, "breakout_post", 88, 75, 92, 78, 86, "Breakout post on b")
timing_gap == Candidate(NULL, "timing_gap", 68, 72, 60, 75, 80, "Posting lane is open")

\* (title or '').strip().lower() on the titles above
strip_lower(title) ==
    CASE title = "Velocity spike on a" -> "velocity spike on a"
      [] title = "Velocity spike on b" -> "velocity spike on b"
      [] title = "Format win on a" -> "format win on a"
      [] title = "Format fatigue in Video" -> "format fatigue in video"
      [] title = "Breakout post on b" -> "breakout post on b"
      [] title = "Posting lane is open" -> "posting lane is open"
      [] OTHER -> title

\* `feeder_id or 0`, COALESCE(feeder_id, 0)
feeder_or_0(feeder_id) == IF feeder_id = NULL THEN 0 ELSE feeder_id

\* sha256 of the base string: equal exactly when the base strings are equal
dedupe_key(candidate, day_bucket) ==
    <<feeder_or_0(candidate.feeder_id), candidate.alert_type,
      strip_lower(candidate.title), day_bucket>>

\* strftime("%Y-%m-%d") of the clock
day_bucket_of(t) == t \div 24

BlockingStatuses == {"candidate", "selected", "sent"}

\* the NOT EXISTS subquery of upsert_alert_candidate, at NOW() = t
recent_duplicate(rows, candidate, t) ==
    \E ac \in rows :
        /\ feeder_or_0(ac.feeder_id) = feeder_or_0(candidate.feeder_id)
        /\ ac.alert_type = candidate.alert_type
        /\ ac.title = candidate.title
        /\ ac.created_at >= t - 24
        /\ ac.status \in BlockingStatuses

\* ON CONFLICT (feed_id, alert_dedupe_key) DO NOTHING under the unique index
dedupe_conflict(rows, key) == \E ac \in rows : ac.alert_dedupe_key = key

alert_row(candidate, key, t) ==
    [feeder_id |-> candidate.feeder_id, alert_type |-> candidate.alert_type,
     title |-> candidate.title, alert_dedupe_key |-> key, created_at |-> t,
     status |-> "candidate"]

\* _recent_types: the alert types of the feed's candidates of the last 24
\* hours (no alert_events row is written by this program)
_recent_types(rows, t) == {ac.alert_type : ac \in {r \in rows : r.created_at >= t - 24}}

\* faulty variant: the rules do not look at the recent types
stream_candidates_unsuppressed(raw, recent) == raw

\* what the three streams yield: each rule is skipped when its type is recent
stream_candidates(raw, recent) ==
    SelectSeq(raw, LAMBDA candidate : candidate.alert_type \notin recent)

\* faulty variant: the first n in the order of generation
top_candidates_unsorted(candidates, n) == SubSeq(candidates, 1, Min(n, Len(candidates)))

\* sorted(candidates, key=priority, reverse=True)[:n]; the sort is stable
top_candidates(candidates, n) ==
    LET before(j, i) == \/ priority(candidates[j]) > priority(candidates[i])
                        \/ priority(candidates[j]) = priority(candidates[i]) /\ j < i
        rank(i) == 1 + Cardinality({j \in 1..Len(candidates) : before(j, i)})
        sorted == [r \in 1..Len(candidates) |->
                      candidates[CHOOSE i \in 1..Len(candidates) : rank(i) = r]]
    IN  SubSeq(sorted, 1, Min(n, Len(candidates)))

IdleScan ==
    [pc |-> "idle", scan_started_at |-> NULL, candidates |-> <<>>, top |-> <<>>,
     i |-> 0, day_bucket |-> NULL, not_exists |-> FALSE, stmt_now |-> NULL]

\* Two alert runs over a feed whose streams find one velocity spike (once or
\* twice, on the same feeder), or one alert run over every combination of
\* five rules.  The runs start at 23:00; the clock reaches 0:00, 23:00 and
\* 0:00 of the following days
AlertHours == {23, 24, 47, 48}

SpikeRows == {<<>>, <<velocity_spike(1)>>, <<velocity_spike(1), velocity_spike(1)>>,
              <<velocity_spike(1), velocity_spike(2)>>}

StreamRows ==
    {spikes \o win \o fatigue \o breakout \o gap :
        spikes \in SpikeRows,
        win \in {<<>>, <<format_win>>},
        fatigue \in {<<>>, <<sector_fatigue(60)>>, <<sector_fatigue(100)>>},
        breakout \in {<<>>, <<breakout_post>>},
        gap \in {<<>>, <<timing_gap>>}}

InitAlerts ==
    /\ now = 23
    /\ run_queue = <<>>
    /\ post_queue = <<>>
    /\ rq_locked = {}
    /\ pq_locked = {}
    /\ apify_health = [consecutive_failures |-> 0, pause_until |-> NULL]
    /\ post_signals = [p \in Posts |-> NoSignal]
    /\ post_snapshots = <<>>
    /\ checkpoint_metrics = <<>>
    /\ norm = NoNorm
    /\ call = NoCall
    /\ pct_values = <<>>
    /\ pct_value = 0
    /\ pct = NoPercentile
    /\ vtag = NoTag
    /\ feed_metrics = <<>>
    /\ signal_aggregates = <<>>
    /\ rebuilt_at = NULL
    /\ alert_candidates = {}
    /\ alert_engine_state = [last_hot_scan_at |-> NULL, last_pattern_scan_at |-> NULL]
    /\ \/ /\ scan = [r \in {"r1", "r2"} |-> IdleScan]
          /\ stream_rows \in {<<velocity_spike(1)>>, <<velocity_spike(1), velocity_spike(1)>>}
       \/ /\ scan = [r \in {"r1"} |-> IdleScan]
          /\ stream_rows \in StreamRows
    /\ pc = [w \in Workers |-> "top"]
    /\ pause_until = [w \in Workers |-> NULL]
    /\ job = [w \in Workers |-> NoJob]
    /\ post_jobs = [w \in Workers |-> <<>>]
    /\ new_pause_until = [w \in Workers |-> NULL]
    /\ batch_results = [w \in Workers |-> {}]
    /\ idx = [w \in Workers |-> 0]
    /\ items = [w \in Workers |-> <<>>]
    /\ trigger_failures = 2
    /\ cooldown_hours = 2
    /\ InitIdle
    /\ scenario = [NoWorkers EXCEPT !.horizon = 48]

AlertFrame == UNCHANGED <<dbvars, config, velvars, aggvars, pc, localvars, stream_rows>>

\* alerts.py:613-627  scan_started_at, the recent types, the streams, the
\* ranking; with no candidate the run goes straight to the watermark
ScanStart(r) ==
    /\ scan[r].pc = "idle"
    /\ LET candidates == stream_candidates(stream_rows, _recent_types(alert_candidates, now))
           top == top_candidates(candidates, max_per_feed)
       IN  scan' = [scan EXCEPT ![r] =
                       [IdleScan EXCEPT !.pc = IF candidates = <<>> THEN "mark" ELSE "bucket",
                                        !.scan_started_at = now,
                                        !.candidates = candidates,
                                        !.top = top,
                                        !.i = 1]]
    /\ UNCHANGED <<now, alert_candidates, alert_engine_state>>
    /\ AlertFrame

\* db.py:1289-1291  day_bucket and dedupe_key from the clock of the process
UpsertDayBucket(r) ==
    /\ scan[r].pc = "bucket"
    /\ scan' = [scan EXCEPT ![r].pc = "stmt", ![r].day_bucket = day_bucket_of(now)]
    /\ UNCHANGED <<now, alert_candidates, alert_engine_state>>
    /\ AlertFrame

\* db.py:1293-1311  the INSERT .. SELECT .. WHERE NOT EXISTS reads the rows
\* committed when the statement starts
UpsertStatement(r) ==
    /\ scan[r].pc = "stmt"
    /\ scan' = [scan EXCEPT ![r].pc = "insert",
                            ![r].not_exists =
                                ~recent_duplicate(alert_candidates,
                                                  scan[r].top[scan[r].i], now),
                            ![r].stmt_now = now]
    /\ UNCHANGED <<now, alert_candidates, alert_engine_state>>
    /\ AlertFrame

\* db.py:1313-1336  the row reaches the unique index, which sees the rows
\* committed meanwhile; commit; next candidate of top
UpsertInsert(r) ==
    /\ scan[r].pc = "insert"
    /\ LET candidate == scan[r].top[scan[r].i]
           key == dedupe_key(candidate, scan[r].day_bucket)
       IN  alert_candidates' =
               IF scan[r].not_exists /\ ~dedupe_conflict(alert_candidates, key)
               THEN alert_candidates \cup {alert_row(candidate, key, scan[r].stmt_now)}
               ELSE alert_candidates
    /\ scan' = [scan EXCEPT ![r].pc = IF scan[r].i < Len(scan[r].top) THEN "bucket" ELSE "mark",
                            ![r].i = IF scan[r].i < Len(scan[r].top) THEN @ + 1 ELSE @]
    /\ UNCHANGED <<now, alert_engine_state>>
    /\ AlertFrame

\* alerts.py:626, 651  mark_alert_engine_scan(feed_id, scan_started_at, scan_started_at)
MarkScan(r) ==
    /\ scan[r].pc = "mark"
    /\ alert_engine_state' = [last_hot_scan_at |-> scan[r].scan_started_at,
                              last_pattern_scan_at |-> scan[r].scan_started_at]
    /\ scan' = [scan EXCEPT ![r] = IdleScan]
    /\ UNCHANGED <<now, alert_candidates>>
    /\ AlertFrame

AlertTick ==
    /\ \E t \in AlertHours : t > now /\ now' = t
    /\ UNCHANGED <<alert_candidates, alert_engine_state, scan>>
    /\ AlertFrame

NextAlerts ==
    \/ AlertTick
    \/ \E r \in DOMAIN scan : ScanStart(r)
    \/ \E r \in DOMAIN scan : UpsertDayBucket(r)
    \/ \E r \in DOMAIN scan : UpsertStatement(r)
    \/ \E r \in DOMAIN scan : UpsertInsert(r)
    \/ \E r \in DOMAIN scan : MarkScan(r)

SpecAlerts == InitAlerts /\ [][NextAlerts]_vars

\* ------------------------------------------------- batch resolution alone
\* One worker has claimed a batch of two jobs of one (handle, checkpoint)
\* and is about to call the scraper (cli.py:163); the jobs have used any part
\* of their attempts and the posts carry a hot or a cold D7 signal
ResolveScenario ==
    [workers |-> {"w1"}, handles |-> {}, rows |-> 0, urls |-> {}, horizon |-> 0, db_faults |-> FALSE]

ClaimedRow(u, checkpoint, attempt) ==
    [handle |-> "a", url |-> u, checkpoint |-> checkpoint,
     requires_d7_hot |-> (checkpoint = "d21"), status |-> "running",
     attempt |-> attempt, next_run_at |-> 0]

StoredD7Signals ==
    {Signal(o.tag, "D7", o.percentile) : o \in {HotOutcome, ColdOutcome}}

InitResolve ==
    /\ now = 0
    /\ run_queue = <<>>
    /\ \E checkpoint \in {"d7", "d21"} :
       \E a1 \in 0..Len(RETRY_BACKOFF_MINUTES), a2 \in 0..Len(RETRY_BACKOFF_MINUTES) :
          post_queue = <<ClaimedRow("u1", checkpoint, a1), ClaimedRow("u2", checkpoint, a2)>>
    /\ rq_locked = {}
    /\ pq_locked = {}
    /\ apify_health = [consecutive_failures |-> 0, pause_until |-> NULL]
    /\ \E s1 \in StoredD7Signals, s2 \in StoredD7Signals :
          post_signals = [p \in Posts |->
                             IF p = <<"a", "u1">> THEN s1
                             ELSE IF p = <<"a", "u2">> THEN s2 ELSE NoSignal]
    /\ post_snapshots = <<>>
    /\ checkpoint_metrics = <<>>
    /\ norm = NoNorm
    /\ call = NoCall
    /\ pct_values = <<>>
    /\ pct_value = 0
    /\ pct = NoPercentile
    /\ vtag = NoTag
    /\ InitFeed
    /\ pc = [w \in Workers |-> IF w = "w1" THEN "pscrape" ELSE "top"]
    /\ pause_until = [w \in Workers |-> NULL]
    /\ job = [w \in Workers |-> NoJob]
    /\ post_jobs = [w \in Workers |->
                      IF w = "w1" THEN <<JobRow(post_queue, 1), JobRow(post_queue, 2)>>
                      ELSE <<>>]
    /\ new_pause_until = [w \in Workers |-> NULL]
    /\ batch_results = [w \in Workers |-> {}]
    /\ idx = [w \in Workers |-> 0]
    /\ items = [w \in Workers |-> <<>>]
    /\ trigger_failures = 2
    /\ cooldown_hours = 2
    /\ InitIdle
    /\ scenario = ResolveScenario

NextResolve ==
    \E w \in scenario.workers :
        \/ SyncPostBatchOk(w)
        \/ PostRecordSuccess(w)
        \/ PostResolveJob(w)

SpecResolve == InitResolve /\ [][NextResolve]_vars

\* ------------------------------------------------- feeder reconciliation
\* Sheet titles and handles are sequences of characters, " " the whitespace.
\* The titles schedule() can list: two handles, one of them also with a
\* leading blank, and a sheet whose title is blank
SheetTitles == {<<"a">>, <<"b">>, <<" ", "a">>, <<" ">>}
MaxSheets == 2

\* the lists of distinct sheet titles of a spreadsheet
SheetLists ==
    {l \in UNION {[1..n -> SheetTitles] : n \in 0..MaxSheets} :
        \A i, j \in DOMAIN l : i # j => l[i] # l[j]}

\* str.strip()
RECURSIVE lstrip(_)
lstrip(s) == IF s # <<>> /\ Head(s) = " " THEN lstrip(Tail(s)) ELSE s

RECURSIVE rstrip(_)
rstrip(s) == IF s # <<>> /\ s[Len(s)] = " " THEN rstrip(SubSeq(s, 1, Len(s) - 1)) ELSE s

strip(s) == rstrip(lstrip(s))

\* db.py:296-313  the feeder of a handle: the row found by the SELECT as it
\* is, whatever its status; otherwise a new row with status 'active'
_get_feeder_id(f, handle) ==
    IF handle \in DOMAIN f THEN f
    ELSE [h \in DOMAIN f \cup {handle} |-> IF h = handle THEN "active" ELSE f[h]]

\* db.py:335-341  the loop over the handles: blank values are skipped, the
\* others are appended to clean and looked up or inserted
RECURSIVE ensure_loop(_, _, _)
ensure_loop(f, handles, clean) ==
    IF handles = <<>> THEN [feeders |-> f, clean |-> clean]
    ELSE LET value == strip(Head(handles))
         IN  IF value = <<>> THEN ensure_loop(f, Tail(handles), clean)
             ELSE ensure_loop(_get_feeder_id(f, value), Tail(handles),
                              Append(clean, value))

\* db.py:332-352  .. then UPDATE feeders SET status='inactive' WHERE
\* handle <> ALL(clean or [""]) AND status='active'
ensure_feeders_for_subscriber(f, handles) ==
    LET r == ensure_loop(f, handles, <<>>)
        listed == IF r.clean = <<>> THEN {<<>>}
                  ELSE {r.clean[i] : i \in DOMAIN r.clean}
    IN  [h \in DOMAIN r.feeders |->
            IF h \notin listed /\ r.feeders[h] = "active" THEN "inactive"
            ELSE r.feeders[h]]

\* no feeder yet; schedule() is about to list the sheets of the subscriber
InitSchedule ==
    /\ InitStore
    /\ trigger_failures = 2
    /\ cooldown_hours = 2
    /\ scenario = NoWorkers
    /\ InitIdle

ScheduleFrame ==
    UNCHANGED <<now, dbvars, trigger_failures, cooldown_hours, scenario, velvars,
                feedvars, pc, localvars, apify_run>>

\* cli.py:79-84  list_sheet_titles, without the ignored sheets
ListSheetTitles ==
    /\ schedule_pc = "list"
    /\ handle_sheets' \in SheetLists
    /\ schedule_pc' = "ensure"
    /\ UNCHANGED feeders
    /\ ScheduleFrame

\* cli.py:85  ensure_feeders_for_subscriber(sub["id"], handle_sheets)
EnsureFeeders ==
    /\ schedule_pc = "ensure"
    /\ feeders' = ensure_feeders_for_subscriber(feeders, handle_sheets)
    /\ schedule_pc' = "enqueue"
    /\ UNCHANGED handle_sheets
    /\ ScheduleFrame

\* cli.py:87-94  the weekly refresh or the enqueue of the handle jobs, which
\* leave the feeders alone; the next schedule() lists the sheets again
ScheduleDone ==
    /\ schedule_pc = "enqueue"
    /\ schedule_pc' = "list"
    /\ UNCHANGED <<feeders, handle_sheets>>
    /\ ScheduleFrame

\* db.py:913  a worker stores a post of a sheet it was given: upsert_post_core
\* looks the feeder of the handle up, or inserts it
UpsertPostCoreFeeder ==
    /\ \E h \in {strip(t) : t \in SheetTitles} \ {<<>>} :
          feeders' = _get_feeder_id(feeders, h)
    /\ UNCHANGED <<handle_sheets, schedule_pc>>
    /\ ScheduleFrame

NextSchedule ==
    \/ ListSheetTitles
    \/ EnsureFeeders
    \/ ScheduleDone
    \/ UpsertPostCoreFeeder

SpecSchedule == InitSchedule /\ [][NextSchedule]_vars

\* ------------------------------------------------------------ scraper run
\* _run_payload against the provider.  Time is counted in units of the
\* shortest poll interval; a status request takes 0 or 1 unit.  A response
\* of the provider is any status it can report, with or without a dataset id
RunTimeouts == {2, 3}
PollIntervals == {1, 2}
RequestTimes == {0, 1}
RunStatuses == {"READY", "RUNNING", "SUCCEEDED", "FAILED", "TIMED-OUT", NullText}

NextCall(run) ==
    [NoRun EXCEPT !.pc = "post", !.timeout = run.timeout, !.interval = run.interval]

Ended(run, outcome) == [run EXCEPT !.pc = "done", !.outcome = outcome]

\* faulty variant: only the status FAILED ends the run with an error
loop_exit_unless_failed(status, dataset_id) ==
    IF status = "FAILED" THEN "RuntimeError"
    ELSE IF ~dataset_id THEN "RuntimeError"
    ELSE "items"

\* apify.py:49-54  after the loop: any status but SUCCEEDED is a failure,
\* and so is a SUCCEEDED run without a dataset id
loop_exit(status, dataset_id) ==
    IF status # "SUCCEEDED" THEN "RuntimeError"
    ELSE IF ~dataset_id THEN "RuntimeError"
    ELSE "items"

\* APIFY_RUN_TIMEOUT_SECONDS and APIFY_POLL_INTERVAL_SECONDS of the process
InitRun ==
    /\ InitStore
    /\ trigger_failures = 2
    /\ cooldown_hours = 2
    /\ scenario = NoWorkers
    /\ feeders = <<>>
    /\ handle_sheets = <<>>
    /\ schedule_pc = "list"
    /\ \E t \in RunTimeouts, i \in PollIntervals :
          apify_run = [NoRun EXCEPT !.timeout = t, !.interval = i]

RunFrame ==
    UNCHANGED <<now, dbvars, trigger_failures, cooldown_hours, scenario, velvars,
                feedvars, pc, localvars, schedvars>>

\* apify.py:59-62  run_actor calls _run_payload
RunActor ==
    /\ apify_run.pc = "done"
    /\ apify_run' = NextCall(apify_run)
    /\ RunFrame

\* apify.py:32-40  POST the run: the request fails, or the response has no
\* run id, or the polling starts with status "RUNNING" and the clock at 0
RunPost ==
    /\ apify_run.pc = "post"
    /\ \E http_ok, run_id \in BOOLEAN :
          apify_run' = IF ~http_ok THEN Ended(apify_run, "HTTPError")
                       ELSE IF ~run_id THEN Ended(apify_run, "RuntimeError")
                       ELSE [apify_run EXCEPT !.pc = "loop", !.status = "RUNNING",
                                              !.elapsed = 0]
    /\ RunFrame

\* apify.py:41-43, 49-54  the loop test, the timeout test of an iteration and
\* what follows the loop
RunLoop ==
    /\ apify_run.pc = "loop"
    /\ apify_run' =
          IF apify_run.status \in {"RUNNING", "READY"}
          THEN IF apify_run.elapsed > apify_run.timeout
               THEN Ended(apify_run, "TimeoutError")
               ELSE [apify_run EXCEPT !.pc = "poll"]
          ELSE IF loop_exit(apify_run.status, apify_run.dataset_id) = "items"
               THEN [apify_run EXCEPT !.pc = "items"]
               ELSE Ended(apify_run, loop_exit(apify_run.status, apify_run.dataset_id))
    /\ RunFrame

\* apify.py:44-47  sleep one interval, then GET the run: the request fails,
\* or the response gives the status and the dataset id of the run
RunPoll ==
    /\ apify_run.pc = "poll"
    /\ \E http_ok, dataset_id \in BOOLEAN, status \in RunStatuses, d \in RequestTimes :
          LET slept == [apify_run EXCEPT !.elapsed = @ + apify_run.interval + d]
          IN  apify_run' = IF ~http_ok THEN Ended(slept, "HTTPError")
                           ELSE [slept EXCEPT !.pc = "loop", !.status = status,
                                              !.dataset_id = dataset_id]
    /\ RunFrame

\* apify.py:56-59  GET the items of the dataset and return them
RunItems ==
    /\ apify_run.pc = "items"
    /\ \E http_ok \in BOOLEAN :
          apify_run' = Ended([apify_run EXCEPT !.fetched = TRUE],
                             IF http_ok THEN "items" ELSE "HTTPError")
    /\ RunFrame

RunStep ==
    \/ RunPost
    \/ RunLoop
    \/ RunPoll
    \/ RunItems

NextRun ==
    \/ RunActor
    \/ RunStep

\* a call that was started goes on: every request has a timeout (apify.py:33,
\* 46, 58) and the sleep is finite
SpecRun == InitRun /\ [][NextRun]_vars /\ WF_vars(RunStep)

\* ================================================================ claims
HandlePcs == {"check", "scrape", "rec_succ", "mark_succ", "finish", "rec_fail", "mark_fail"}
PostPcs == {"pcheck", "pscrape", "prec_succ", "presolve", "prec_fail", "pmark_fail"}

\* rows a worker has selected (and locked) or claimed and not yet resolved
HeldJobs(w) == IF pc[w] \in HandlePcs \cup {"claim"} THEN {job[w].id} ELSE {}
HeldPostJobs(w) == IF pc[w] \in PostPcs \cup {"pclaim"} THEN SeqIds(post_jobs[w]) ELSE {}

BecomesRunning(q, q2, i) == q[i].status # "running" /\ q2[i].status = "running"

\* C1: no queue row is claimed by two workers.  Workers that select, claim
\* or process rows at the same time hold pairwise distinct rows, and a row
\* goes from pending|retry to running only in the UPDATE of the one worker
\* whose SELECT locked it.
C1_DistinctClaims ==
    /\ [](\A w1, w2 \in Workers : w1 # w2 =>
            /\ HeldJobs(w1) \cap HeldJobs(w2) = {}
            /\ HeldPostJobs(w1) \cap HeldPostJobs(w2) = {})
    /\ [][/\ \A i \in RunIds : BecomesRunning(run_queue, run_queue', i) =>
               /\ Claimable(run_queue[i])
               /\ Cardinality({w \in Workers : pc[w] = "claim" /\ job[w].id = i
                                               /\ pc'[w] = "check"}) = 1
          /\ \A i \in PostIds : BecomesRunning(post_queue, post_queue', i) =>
               /\ Claimable(post_queue[i])
               /\ Cardinality({w \in Workers : pc[w] = "pclaim" /\ pc'[w] = "pcheck"
                                               /\ i \in SeqIds(post_jobs[w])}) = 1
         ]_vars

\* two workers are inside fetch_next_job at once, each with its own locked row
C1_Witness ==
    \E w1, w2 \in Workers :
        /\ w1 # w2 /\ pc[w1] = "claim" /\ pc[w2] = "claim"
        /\ job[w1].id # job[w2].id

\* C2 (as claimed): every job in status running is being processed by exactly
\* one live worker, which will move it to done, failed, skipped or retry; no
\* job is left in running by a worker that has gone on.
C2_RunningIsOwned ==
    /\ \A i \in RunIds : run_queue[i].status = "running" =>
          Cardinality({w \in Workers : pc[w] \in HandlePcs /\ job[w].id = i}) = 1
    /\ \A i \in PostIds : post_queue[i].status = "running" =>
          Cardinality({w \in Workers : pc[w] \in PostPcs /\ i \in SeqIds(post_jobs[w])}) = 1

EntersScrape(w) ==
    \/ pc[w] = "check" /\ pc'[w] = "scrape"
    \/ pc[w] = "pcheck" /\ pc'[w] = "pscrape"

C4_PausedJobsAreReturned ==
    [][\A w \in Workers :
          /\ EntersScrape(w) => ~CooldownActive(apify_health.pause_until, now)
          /\ (pc[w] = "check" /\ pc'[w] # "check"
                /\ CooldownActive(apify_health.pause_until, now)) =>
                /\ run_queue'[job[w].id].status = "retry"
                /\ run_queue'[job[w].id].next_run_at = apify_health.pause_until
                /\ run_queue'[job[w].id].attempt = run_queue[job[w].id].attempt
          /\ (pc[w] = "pcheck" /\ pc'[w] # "pcheck"
                /\ CooldownActive(apify_health.pause_until, now)) =>
                \A i \in SeqIds(post_jobs[w]) :
                    /\ post_queue'[i].status = "retry"
                    /\ post_queue'[i].next_run_at = apify_health.pause_until
                    /\ post_queue'[i].attempt = post_queue[i].attempt
      ]_vars


\* C5 (as claimed): record_failure adds one to consecutive_failures; exactly
\* when the new count reaches max(1, trigger_N) it sets
\* pause_until = now + cooldown_hours and resets the count to 0, otherwise
\* pause_until is unchanged; so 0 <= consecutive_failures < max(1, trigger_N).
C5_PauseIsNowPlusCooldown ==
    /\ [](/\ apify_health.consecutive_failures >= 0
          /\ apify_health.consecutive_failures < Max(1, trigger_failures))
    /\ [][RecordFailureCall =>
            LET failures == apify_health.consecutive_failures + 1
            IN  IF failures >= Max(1, trigger_failures)
                THEN /\ apify_health'.pause_until = now + cooldown_hours
                     /\ apify_health'.consecutive_failures = 0
                ELSE /\ apify_health'.pause_until = apify_health.pause_until
                     /\ apify_health'.consecutive_failures = failures
         ]_vars

\* C5 (amended): as claimed, except that the cooldown too is treated as at
\* least one hour: pause_until = now + max(1, cooldown_hours).
C5_PauseIsNowPlusClampedCooldown ==
    /\ [](/\ apify_health.consecutive_failures >= 0
          /\ apify_health.consecutive_failures < Max(1, trigger_failures))
    /\ [][RecordFailureCall =>
            LET failures == apify_health.consecutive_failures + 1
            IN  IF failures >= Max(1, trigger_failures)
                THEN /\ apify_health'.pause_until = now + Max(1, cooldown_hours)
                     /\ apify_health'.consecutive_failures = 0
                ELSE /\ apify_health'.pause_until = apify_health.pause_until
                     /\ apify_health'.consecutive_failures = failures
         ]_vars

\* the breaker has tripped under a cooldown configured below one hour, after
\* failures that did not trip it
C5_Witness ==
    /\ cooldown_hours = 0
    /\ InitIdle
    /\ trigger_failures = 3
    /\ apify_health.pause_until = now + 1
    /\ apify_health.consecutive_failures = 0

L == Len(RETRY_BACKOFF_MINUTES)

\* C6 (as claimed): a failed execution adds exactly one to attempt; the job
\* goes to retry when the new attempt is within the schedule length L and
\* to failed when it is beyond L.
C6_FailureConsumesOneAttempt ==
    [][\A w \in Workers :
          /\ (pc[w] = "mark_fail" /\ pc'[w] # "mark_fail") =>
                LET i == job[w].id
                    a == run_queue[i].attempt + 1
                IN  \/ /\ a <= L
                       /\ run_queue'[i].status = "retry"
                       /\ run_queue'[i].attempt = a
                    \/ /\ a > L
                       /\ run_queue'[i].status = "failed"
          /\ (pc[w] = "pmark_fail" /\ pc'[w] # "pmark_fail") =>
                \A i \in SeqIds(post_jobs[w]) :
                    LET a == post_queue[i].attempt + 1
                    IN  \/ /\ a <= L
                           /\ post_queue'[i].status = "retry"
                           /\ post_queue'[i].attempt = a
                        \/ /\ a > L
                           /\ post_queue'[i].status = "failed"
          /\ (pc[w] = "presolve" /\ post_queue' # post_queue) =>
                LET i == post_jobs[w][idx[w]].id
                    a == post_queue[i].attempt + 1
                IN  post_queue'[i].status \in {"retry", "failed"} =>
                      \/ /\ a <= L
                         /\ post_queue'[i].status = "retry"
                         /\ post_queue'[i].attempt = a
                      \/ /\ a > L
                         /\ post_queue'[i].status = "failed"
      ]_vars

\* C7 (as claimed): a failed job that is put into retry while pause_until is
\* in the future gets next_run_at = max(now + backoff slot, pause_until),
\* whether this failure set the pause or the pause was already active.
C7_PauseOverridesBackoff ==
    [][\A w \in Workers :
          /\ (pc[w] = "mark_fail" /\ pc'[w] = "top"
                /\ run_queue'[job[w].id].status = "retry"
                /\ CooldownActive(apify_health.pause_until, now)) =>
                run_queue'[job[w].id].next_run_at =
                    Max(_next_retry_time(run_queue'[job[w].id].attempt, now),
                        apify_health.pause_until)
          /\ (pc[w] = "pmark_fail" /\ pc'[w] = "top"
                /\ CooldownActive(apify_health.pause_until, now)) =>
                \A i \in SeqIds(post_jobs[w]) : post_queue'[i].status = "retry" =>
                    post_queue'[i].next_run_at =
                        Max(_next_retry_time(post_queue'[i].attempt, now),
                            apify_health.pause_until)
          /\ (pc[w] = "presolve" /\ post_queue' # post_queue
                /\ CooldownActive(apify_health.pause_until, now)) =>
                LET i == post_jobs[w][idx[w]].id
                IN  post_queue'[i].status = "retry" =>
                      post_queue'[i].next_run_at =
                          Max(_next_retry_time(post_queue'[i].attempt, now),
                              apify_health.pause_until)
      ]_vars

\* at most one pending|retry row per (subscriber, handle)
UniquePending ==
    \A i, j \in RunIds :
        (i # j /\ Claimable(run_queue[i]) /\ Claimable(run_queue[j])) =>
            run_queue[i].handle # run_queue[j].handle

\* C8 (as claimed): run_queue never holds two pending|retry rows of one
\* (subscriber, handle), and every status update of the worker succeeds: no
\* worker is stopped by a violation of that uniqueness.
C8_UniquePendingAndUpdatesSucceed ==
    /\ UniquePending
    /\ \A w \in Workers : pc[w] # "crashed"

PostJobRow(h, u, cp) ==
    [handle |-> h, url |-> u, checkpoint |-> cp.checkpoint,
     requires_d7_hot |-> cp.requires_d7_hot, status |-> "pending",
     attempt |-> 0, next_run_at |-> cp.run_at]

\* C9: post_queue never holds two rows of one (subscriber, handle, post_url,
\* checkpoint).  The first ingestion of a post with a posted_at appends
\* exactly the rows d3 at posted_at+3d, d7 at +7d and d21 at +21d, pending,
\* with requires_d7_hot true only for d21; any other ingestion leaves
\* post_queue as it is, whatever the status of the rows.
C9_CheckpointRowsOnce ==
    /\ [](\A i, j \in PostIds : i # j =>
            <<post_queue[i].handle, post_queue[i].url, post_queue[i].checkpoint>> #
            <<post_queue[j].handle, post_queue[j].url, post_queue[j].checkpoint>>)
    /\ [][\A w \in Workers :
            (pc[w] = "scrape" /\ pc'[w] # "scrape") =>
                IF items'[w] = <<>> THEN post_queue' = post_queue
                ELSE LET it == items'[w][1]
                         h == job[w].handle
                         known == \E i \in PostIds : /\ post_queue[i].handle = h
                                                     /\ post_queue[i].url = it.post_url
                     IN  IF it.posted_at = NULL \/ known
                         THEN post_queue' = post_queue
                         ELSE post_queue' = post_queue \o
                                << PostJobRow(h, it.post_url,
                                     [checkpoint |-> "d3", requires_d7_hot |-> FALSE,
                                      run_at |-> it.posted_at + 72]),
                                   PostJobRow(h, it.post_url,
                                     [checkpoint |-> "d7", requires_d7_hot |-> FALSE,
                                      run_at |-> it.posted_at + 168]),
                                   PostJobRow(h, it.post_url,
                                     [checkpoint |-> "d21", requires_d7_hot |-> TRUE,
                                      run_at |-> it.posted_at + 504]) >>
         ]_vars

\* a post is ingested again, with another posted_at, while one of its rows
\* is running and another is resolved
C9_Witness ==
    \E w \in Workers :
        /\ pc[w] \in {"rec_succ", "rec_fail"}
        /\ items[w] # <<>>
        /\ items[w][1].posted_at # NULL
        /\ Len(post_queue) = 3
        /\ post_queue[1].next_run_at # items[w][1].posted_at + 72
        /\ \E i \in PostIds : post_queue[i].status = "running"
        /\ \E i \in PostIds : post_queue[i].status \in {"done", "skipped", "retry"}

Unlocked(q, locked, t) == {i \in 1..Len(q) : Ready(q[i], t) /\ i \notin locked}

\* C10: fetch next claims only rows that are pending|retry with
\* next_run_at <= now; of the ready rows no other worker has locked it takes
\* the first in (next_run_at, id) order; with no such row it returns nothing
\* and changes no row.
C10_FetchOrder ==
    [][\A w \in Workers :
          /\ (pc[w] = "fetch" /\ pc'[w] = "claim") =>
                LET j == job'[w].id
                IN  /\ j \in Unlocked(run_queue, rq_locked, now)
                    /\ \A i \in Unlocked(run_queue, rq_locked, now) :
                          \/ run_queue[j].next_run_at < run_queue[i].next_run_at
                          \/ /\ run_queue[j].next_run_at = run_queue[i].next_run_at
                             /\ j <= i
          /\ (pc[w] = "fetch" /\ pc'[w] = "pfetch") =>
                /\ Unlocked(run_queue, rq_locked, now) = {}
                /\ run_queue' = run_queue
          /\ (pc[w] = "claim" /\ pc'[w] = "check") =>
                /\ Claimable(run_queue[job[w].id])
                /\ run_queue[job[w].id].next_run_at <= now
                /\ \A i \in RunIds \ {job[w].id} : run_queue'[i] = run_queue[i]
          /\ (pc[w] = "pfetch" /\ pc'[w] = "pclaim") =>
                LET j == post_jobs'[w][1].id
                IN  /\ SeqIds(post_jobs'[w]) \subseteq Unlocked(post_queue, pq_locked, now)
                    /\ \A i \in Unlocked(post_queue, pq_locked, now) :
                          \/ post_queue[j].next_run_at < post_queue[i].next_run_at
                          \/ /\ post_queue[j].next_run_at = post_queue[i].next_run_at
                             /\ j <= i
          /\ (pc[w] = "pfetch" /\ pc'[w] = "top") =>
                /\ Unlocked(post_queue, pq_locked, now) = {}
                /\ post_queue' = post_queue
      ]_vars

\* a worker has selected a row although a row with a smaller id is ready too:
\* the selected row is due earlier
C10_Witness ==
    \E w \in Workers :
        /\ pc[w] = "claim"
        /\ \E i \in RunIds :
              /\ i < job[w].id
              /\ i \notin rq_locked
              /\ Ready(run_queue[i], now)
              /\ run_queue[i].next_run_at > run_queue[job[w].id].next_run_at

\* C11: a batch returned by fetch_next_post_job_batch(N) holds at most N
\* jobs (N = post_batch_size), and all of them have the handle and the
\* checkpoint of the first one (one subscriber), so that the one scraper
\* call made with the first job's key is right for every job of the batch;
\* the rows it holds were ready and are set to running together.
C11_BatchWithinSizeAndKey ==
    \A w \in Workers :
        /\ Len(post_jobs[w]) <= post_batch_size
        /\ \A i \in 1..Len(post_jobs[w]) :
              /\ post_jobs[w][i].handle = post_jobs[w][1].handle
              /\ post_jobs[w][i].checkpoint = post_jobs[w][1].checkpoint
              /\ post_queue[post_jobs[w][i].id].handle = post_jobs[w][1].handle
              /\ post_queue[post_jobs[w][i].id].checkpoint = post_jobs[w][1].checkpoint
              /\ pc[w] = "pcheck" => post_queue[post_jobs[w][i].id].status = "running"

\* a full batch has been claimed while a further ready row of the same key
\* and a ready row of another key stay in the queue
C11_Witness ==
    \E w \in Workers :
        /\ pc[w] = "pcheck"
        /\ Len(post_jobs[w]) = post_batch_size
        /\ \E i, j \in PostIds :
              /\ Ready(post_queue[i], now) /\ Ready(post_queue[j], now)
              /\ post_queue[i].handle = post_jobs[w][1].handle
              /\ post_queue[i].checkpoint = post_jobs[w][1].checkpoint
              /\ \/ post_queue[j].handle # post_jobs[w][1].handle
                 \/ post_queue[j].checkpoint # post_jobs[w][1].checkpoint

\* what the snapshot table holds for a post: the tag of a checkpoint as
\* _velocity_tag_for_checkpoint gives it (NoTag without a row or without
\* data at the checkpoint), and the triple of a checkpoint
StoredTag(snapshots, item, checkpoint) ==
    IF item.post_url \notin DOMAIN snapshots THEN NoTag
    ELSE _velocity_tag_for_checkpoint(snapshots,
             snap_media_type(snapshots[item.post_url], item),
             snapshots[item.post_url], item, checkpoint)

StoredTriple(snapshots, u, checkpoint) ==
    IF u \in DOMAIN snapshots THEN snapshots[u][checkpoint] ELSE NoTriple

\* C12 (as claimed): a D21 execution never writes the d21 triple of a post
\* whose D7 tag is not hot, be it that the post has a cold D7 tag, no D7
\* data, or no snapshot row at all: whenever the d21 triple of the post
\* changes, the D7 tag computed from the stored snapshot was hot.
C12_NoD21SnapshotUnlessD7Hot ==
    [][StoredTriple(post_snapshots', "u1", "d21") # StoredTriple(post_snapshots, "u1", "d21")
          => _is_high_tag(StoredTag(post_snapshots, call'.item, "d7"))
      ]_vars

\* C12, with a snapshot row: then the d21 triple is written only for a hot D7 tag
C12_GateHoldsWithSnapshotRow ==
    [][("u1" \in DOMAIN post_snapshots /\
        StoredTriple(post_snapshots', "u1", "d21") # StoredTriple(post_snapshots, "u1", "d21"))
          => _is_high_tag(StoredTag(post_snapshots, call'.item, "d7"))
      ]_vars

\* the last classification of the post was its D7 one, and it was not hot
D7NotHot(signals, h, u) ==
    /\ signals[<<h, u>>].velocity_stage = "D7"
    /\ ~_is_high_tag(signals[<<h, u>>].velocity_tag)

GatedJob(pj) ==
    /\ pj.checkpoint = "d21"
    /\ pj.requires_d7_hot
    /\ D7NotHot(post_signals, pj.handle, pj.url)

\* C13 (as claimed): for a d21 job of a post whose D7 tag is not hot no
\* scraper call is made: no worker leaves the scrape step of a batch that
\* holds such a job (its post_url was among those handed to the scraper).
C13_NoScrapeForGatedJob ==
    [][\A w \in Workers :
          (pc[w] = "pscrape" /\ pc'[w] # "pscrape") =>
             \A i \in 1..Len(post_jobs[w]) : ~GatedJob(post_jobs[w][i])
      ]_vars

\* C14 (as claimed): a d21 job of a post whose D7 tag is not hot ends in
\* skipped, never in failed and never in done: no step takes a d21 row that
\* requires a hot D7 to failed or done while the post's last classification
\* is a D7 one that is not hot.
C14_GatedJobEndsSkipped ==
    [][\A i \in PostIds :
          (/\ post_queue[i].checkpoint = "d21"
           /\ post_queue[i].requires_d7_hot
           /\ D7NotHot(post_signals, post_queue[i].handle, post_queue[i].url)
           /\ post_queue'[i].status # post_queue[i].status)
          => post_queue'[i].status \notin {"failed", "done"}
      ]_vars

\* the pool and the percentile of the _percentile call, as numbers
PoolUnique == {pct_values[i] : i \in DOMAIN pct_values}
PoolU == Cardinality(PoolUnique)
PoolRank == Cardinality({v \in PoolUnique : v > pct_value}) + 1
PoolMax == \A v \in PoolUnique : pct_value >= v
PercentNumber == CHOOSE n \in 0..101 : format_percent(n) = pct
\* p is an integer nearest to 1 + (r - 1) * 99 / (U - 1)
NearestToRankFormula(p, r, U) ==
    LET n == (U - 1) + (r - 1) * 99
        d == p * (U - 1) - n
    IN  2 * (IF d >= 0 THEN d ELSE -d) <= U - 1

C16_TagBands ==
    (pct # NoPercentile /\ vtag # NoTag) =>
        /\ vtag = (IF PercentNumber <= 5 THEN ROCKET
                   ELSE IF PercentNumber <= 15 THEN FIRE
                   ELSE IF PercentNumber <= 35 THEN CHECK
                   ELSE SLEEPING)
        /\ _is_high_tag(vtag) <=> PercentNumber <= 15

\* the last percentile of the fire band has been tagged
C16_Witness ==
    /\ pct = format_percent(15)
    /\ vtag = FIRE

\* C17 (as claimed): when the classifier yields no percentile, the tag it
\* persists to the post signal and to the checkpoint metric is empty or
\* the sentinel insufficient_data, never one of the band tags.
C17_NoBandTagWithoutPercentile ==
    /\ post_signals[<<"a", "u1">>].velocity_percentile = NoPercentile
          => post_signals[<<"a", "u1">>].velocity_tag \in {NoTag, INSUFFICIENT_DATA}
    /\ \A k \in DOMAIN checkpoint_metrics :
          checkpoint_metrics[k].velocity_percentile = NoPercentile
          => checkpoint_metrics[k].velocity_tag \in {NoTag, INSUFFICIENT_DATA}

\* the classification the last call with a timestamp left behind
LastSignal == post_signals[<<"a", "u1">>]
LastCheckpoint ==
    CASE norm.velocity_stage \in {"D1", "D2"} -> "d1"
      [] norm.velocity_stage = "D3" -> "d3"
      [] norm.velocity_stage = "D7" -> "d7"
      [] norm.velocity_stage = "D21" -> "d21"
LastPoolSize ==
    Cardinality(DOMAIN _velocity_pool(post_snapshots,
        snap_media_type(post_snapshots["u1"], call.item), LastCheckpoint))
BandTags == {ROCKET, FIRE, CHECK, SLEEPING, CLOVER \o ROCKET, CLOVER \o FIRE}

\* C18: for a post with a metric at the checkpoint, a cohort pool of fewer
\* than 12 values at d1, or of fewer than 20 values at d3, d7 or d21, gives
\* the sentinel insufficient_data with an empty percentile (so persisted
\* to the post signal and the checkpoint metric, and projected to the
\* spreadsheet row as empty tag and empty percentile); a pool at or above
\* the threshold gives a band tag with a percentile.
C18_MinimumCohort ==
    (norm.velocity_stage # "" /\ post_snapshots["u1"][LastCheckpoint] # NoTriple) =>
        LET row == checkpoint_metrics[<<"u1", LastCheckpoint>>]
            below == LastPoolSize < (IF LastCheckpoint = "d1" THEN 12 ELSE 20)
        IN  /\ row.velocity_tag = LastSignal.velocity_tag
            /\ row.velocity_percentile = LastSignal.velocity_percentile
            /\ below => /\ LastSignal.velocity_tag = INSUFFICIENT_DATA
                        /\ LastSignal.velocity_percentile = NoPercentile
                        /\ norm.velocity = NoTag
                        /\ norm.velocity_percentile = NoPercentile
            /\ ~below => /\ LastSignal.velocity_tag \in BandTags
                         /\ LastSignal.velocity_percentile # NoPercentile
                         /\ norm.velocity = LastSignal.velocity_tag
                         /\ norm.velocity_percentile = LastSignal.velocity_percentile

\* a d1 pool of exactly 12 values has been classified with a band tag, and
\* the same cohort is below the threshold of the later checkpoints
C18_Witness ==
    /\ norm.velocity_stage \in {"D1", "D2"}
    /\ post_snapshots["u1"].d1 # NoTriple
    /\ LastPoolSize = 12
    /\ LastSignal.velocity_tag \in BandTags
    /\ Cardinality(DOMAIN _velocity_pool(post_snapshots, "video", "d7")) < 20

HasPrefix(tag_) == Len(tag_) >= 1 /\ tag_[1] = "clover"

\* C19 (as claimed): the emitted tag carries the late-bloomer prefix
\* exactly when it is the d7 tag, it is hot, and the post has a stored d1
\* triple whose d1 tag is not hot; without a stored d1 triple no prefix is
\* applied, and at checkpoints other than d7 none is applied.
C19_LateBloomerPrefix ==
    norm.velocity_stage # "" =>
        (HasPrefix(LastSignal.velocity_tag) <=>
            /\ LastCheckpoint = "d7"
            /\ _is_high_tag(LastSignal.velocity_tag)
            /\ post_snapshots["u1"].d1 # NoTriple
            /\ ~_is_high_tag(StoredTag(post_snapshots, call.item, "d1")))

\* a classifier call with a timestamp
ClassifierStep == now' = now /\ call' # NoCall /\ call'.item.posted_at # NULL

ExpectedCheckpoint ==
    LET age == now - call'.item.posted_at
    IN  IF call'.forced_checkpoint # "" THEN call'.forced_checkpoint
        ELSE IF age < 48 THEN "d1"
        ELSE IF age < 168 THEN "d3"
        ELSE IF age < 504 THEN "d7"
        ELSE "d21"

ExpectedStage ==
    CASE ExpectedCheckpoint = "d1" ->
            IF now - call'.item.posted_at < 24 THEN "D1" ELSE "D2"
      [] ExpectedCheckpoint = "d3" -> "D3"
      [] ExpectedCheckpoint = "d7" -> "D7"
      [] ExpectedCheckpoint = "d21" -> "D21"

ItemTriple(item) == [views |-> item.views, likes |-> item.likes, comments |-> item.comments]

\* the D21 gate closes: a d21 execution for a post with a snapshot row
\* whose stored D7 tag is not hot
GateCloses ==
    /\ ExpectedCheckpoint = "d21"
    /\ "u1" \in DOMAIN post_snapshots
    /\ ~_is_high_tag(StoredTag(post_snapshots, call'.item, "d7"))

\* C20 (as claimed): without a forced checkpoint the checkpoint follows
\* the age (d1 below 48h, with stage D1 below 24h and D2 from 24h; d3 from
\* 48h; d7 from 168h; d21 from 504h), a forced checkpoint is used as it
\* is, and the stage label is the one of the checkpoint.
C20_CheckpointAndStage ==
    [][ClassifierStep =>
          /\ norm'.velocity_stage = ExpectedStage
          /\ post_signals'[<<"a", "u1">>].velocity_stage = ExpectedStage
      ]_vars

\* C20 (amended): as claimed, and the snapshot triple and the checkpoint
\* metric of that checkpoint are the ones written, except when the D21
\* gate closes: then nothing is written to the snapshot and the stage
\* label is D7.
C20_CheckpointAndStageUnlessGated ==
    [][ClassifierStep =>
          IF GateCloses
          THEN /\ norm'.velocity_stage = "D7"
               /\ post_signals'[<<"a", "u1">>].velocity_stage = "D7"
               /\ post_snapshots' = post_snapshots
          ELSE /\ norm'.velocity_stage = ExpectedStage
               /\ post_signals'[<<"a", "u1">>].velocity_stage = ExpectedStage
               /\ post_snapshots'["u1"][ExpectedCheckpoint] = ItemTriple(call'.item)
               /\ \A cp \in Checkpoints \ {ExpectedCheckpoint} :
                     post_snapshots'["u1"][cp] = StoredTriple(post_snapshots, "u1", cp)
               /\ checkpoint_metrics'[<<"u1", ExpectedCheckpoint>>].stage_label = ExpectedStage
      ]_vars

\* an unforced call at the boundary age of 48h has written the d3 triple
C20_Witness ==
    /\ call.forced_checkpoint = ""
    /\ call.item.posted_at # NULL
    /\ now - call.item.posted_at = 48
    /\ norm.velocity_stage = "D3"
    /\ post_snapshots["u1"].d3 # NoTriple

C22_RebuildIsIdempotent ==
    [][(rebuilt_at # NULL /\ rebuilt_at' # rebuilt_at)
           => signal_aggregates' = signal_aggregates]_vars

\* supporting fact: a rebuild repeated on the same day changes nothing
C22_RebuildIsIdempotentAtOneInstant ==
    rebuilt_at = now =>
        rebuild_signal_aggregates(signal_aggregates, feed_metrics, now, lookback_days)
            = signal_aggregates

\* C23: the alert table never holds two rows with the same dedupe key, nor
\* two rows of the same feeder, alert type and title that were created within
\* 24 hours of each other and both have a status among candidate, selected
\* and sent
SameAlert(a, b) ==
    /\ a # b
    /\ feeder_or_0(a.feeder_id) = feeder_or_0(b.feeder_id)
    /\ a.alert_type = b.alert_type
    /\ a.title = b.title

C23_AlertDedupe ==
    \A a, b \in alert_candidates :
        /\ (a # b) => a.alert_dedupe_key # b.alert_dedupe_key
        /\ (SameAlert(a, b) /\ a.status \in BlockingStatuses /\ b.status \in BlockingStatuses)
               => (a.created_at - b.created_at > 24 \/ b.created_at - a.created_at > 24)

\* supporting fact: the unique index alone is never violated
C23_UniqueDedupeKey ==
    \A a, b \in alert_candidates : (a # b) => a.alert_dedupe_key # b.alert_dedupe_key

\* C24: what a scan submits for insertion are at most max_per_feed of the
\* generated candidates, and every generated candidate that is left out has
\* a priority no higher than each submitted one
Occurrences(seq, x) == Cardinality({i \in 1..Len(seq) : seq[i] = x})

C25_EmptyScrapeIsAFailure ==
    [][\A w \in scenario.workers :
          (pc[w] = "scrape" /\ pc'[w] = "rec_succ") => items'[w] # <<>>]_vars

\* C26: a terminal status is final.  Once a handle job is done or failed, or
\* a post job is done, failed or skipped, no step of any worker and no other
\* operation changes its status again.
C26_TerminalStatusIsFinal ==
    [][/\ \A i \in RunIds :
             run_queue[i].status \in {"done", "failed"}
                => run_queue'[i].status = run_queue[i].status
       /\ \A i \in PostIds :
             post_queue[i].status \in {"done", "failed", "skipped"}
                => post_queue'[i].status = post_queue[i].status]_vars

\* C27: a handle scrape never writes a fresh d1 snapshot for a post older
\* than 48 hours.  When sync_handle classifies an item whose age is 48 hours
\* or more, the stored d1 triple of the post, the late-bloomer baseline, is
\* the same after the call as before it.
C27_NoFreshD1After48h ==
    [][(/\ ClassifierStep
        /\ call'.forced_checkpoint = "d1"
        /\ now - call'.item.posted_at >= 48)
          => StoredTriple(post_snapshots', "u1", "d1")
                = StoredTriple(post_snapshots, "u1", "d1")]_vars

\* C28: a d21 job is marked skipped only if the D7 classification of its
\* post was not hot.  A post signal at stage D21 is written by the D21
\* classification alone, which runs, together with the write of the d21
\* snapshot, only for a post whose D7 tag is hot; the d21 job of a post with
\* such a signal is never taken to skipped, whatever the D21 tag is.
C28_HotD7JobIsNotSkipped ==
    [][\A i \in PostIds :
          (/\ post_queue[i].checkpoint = "d21"
           /\ post_signals[<<post_queue[i].handle, post_queue[i].url>>].velocity_stage = "D21"
           /\ post_queue'[i].status # post_queue[i].status)
          => post_queue'[i].status # "skipped"
      ]_vars

\* C29: a cooldown that has been set is kept until it elapses.  While
\* pause_until of the health row lies in the future, no step of any worker
\* clears it or moves it earlier; in particular the success of a scrape that
\* was in flight when the pause was triggered leaves it in place.
C29_CooldownIsKept ==
    [][CooldownActive(apify_health.pause_until, now)
          => /\ apify_health'.pause_until # NULL
             /\ apify_health'.pause_until >= apify_health.pause_until]_vars

\* C30: the worker serves the handle queue before the post queue, and one
\* queue per iteration.  A worker goes on to fetch_next_post_job_batch only
\* from a fetch_next_job that found no ready handle job, a post batch is
\* claimed only there, and within one iteration a worker never holds both a
\* handle job and a post batch.
C30_HandleQueueFirst ==
    [][\A w \in scenario.workers :
          /\ (pc[w] # "pfetch" /\ pc'[w] = "pfetch")
                => /\ pc[w] = "fetch"
                   /\ fetch_next_job_select(run_queue, rq_locked, now) = 0
          /\ (post_jobs[w] = <<>> /\ post_jobs'[w] # <<>>) => pc[w] = "pfetch"
          /\ post_jobs'[w] # <<>> => (job[w] = NoJob /\ job'[w] = NoJob)
      ]_vars

\* a worker has claimed a post batch, in an iteration that holds no handle
\* job, while the handle queue holds a job that is not finished (not ready
\* yet, or held by the other worker)
C30_Witness ==
    \E w \in scenario.workers :
        /\ pc[w] = "pcheck"
        /\ Len(post_jobs[w]) >= 1
        /\ job[w] = NoJob
        /\ \E i \in RunIds : run_queue[i].status \in {"pending", "retry", "running"}

\* the outcome the worker owes a job of a scraped batch, from what is known
\* of this job alone: its checkpoint, its attempt, the signal of its post and
\* whether its post_url is in the batch result
OwnOutcome(pj, signals, results) ==
    IF pj.checkpoint = "d21" /\ pj.requires_d7_hot /\ ~is_d7_hot(signals, pj.handle, pj.url)
    THEN [status |-> "skipped", attempt |-> pj.attempt]
    ELSE IF pj.url \in results THEN [status |-> "done", attempt |-> pj.attempt]
    ELSE IF pj.attempt + 1 <= Len(RETRY_BACKOFF_MINUTES)
    THEN [status |-> "retry", attempt |-> pj.attempt + 1]
    ELSE [status |-> "failed", attempt |-> pj.attempt]

C32_OnlyScraperFailuresCount ==
    [][/\ apify_health'.consecutive_failures # apify_health.consecutive_failures
          => \/ apify_health'.consecutive_failures = 0
             \/ apify_health'.consecutive_failures = apify_health.consecutive_failures + 1
       /\ \A w \in scenario.workers :
             (pc[w] = "rec_fail" /\ pc'[w] = "mark_fail")
                => /\ items[w] = <<>>
                   /\ run_queue[job[w].id].status = "running"
      ]_vars

\* a worker returns the jobs it claimed because the cooldown is active
CooldownReturn(w) ==
    /\ pc[w] \in {"check", "pcheck"}
    /\ CooldownActive(pause_until[w], now)

\* how a step may change the attempt of a queue row: not at all, or by one;
\* a row that is put into retry with its attempt unchanged is returned under
\* cooldown, and a return under cooldown changes no attempt
AttemptStep(q, q2, i, returned) ==
    /\ q2[i].attempt \in 0..L
    /\ q2[i].attempt >= q[i].attempt
    /\ (q2[i].status = "retry" /\ q2[i] # q[i])
          => IF returned THEN q2[i].attempt = q[i].attempt
             ELSE q2[i].attempt = q[i].attempt + 1

TypeCount(candidates, alert_type) ==
    Cardinality({i \in 1..Len(candidates) : candidates[i].alert_type = alert_type})

\* C34: a scan of a feed generates at most one velocity_spike candidate,
\* however many raw rows of the hot query qualify, and none at all when
\* velocity_spike is among the recent types of the feed.
C34_OneVelocitySpikePerScan ==
    [][\A r \in DOMAIN scan :
          (scan[r].pc = "idle" /\ scan'[r].pc # "idle") =>
             /\ TypeCount(scan'[r].candidates, "velocity_spike") <= 1
             /\ "velocity_spike" \in _recent_types(alert_candidates, now)
                   => TypeCount(scan'[r].candidates, "velocity_spike") = 0
      ]_vars

\* an alert of this type was emitted for the feed within the 24 hours before t
EmittedWithin24h(rows, alert_type, t) ==
    \E row \in rows : row.alert_type = alert_type /\ row.created_at <= t
                      /\ t - row.created_at <= 24

CandidateTypes(candidates) == {candidates[i].alert_type : i \in 1..Len(candidates)}

C36_WatermarksNeverDecrease ==
    [][/\ \A r \in DOMAIN scan :
             (scan[r].pc = "mark" /\ scan'[r].pc = "idle") =>
                /\ alert_engine_state'.last_hot_scan_at = scan[r].scan_started_at
                /\ alert_engine_state'.last_pattern_scan_at = scan[r].scan_started_at
       /\ alert_engine_state'.last_hot_scan_at >= alert_engine_state.last_hot_scan_at
       /\ alert_engine_state'.last_pattern_scan_at >= alert_engine_state.last_pattern_scan_at
      ]_vars

\* the metrics of a window a rebuild at time t reads, written out
InLookback(w, t) ==
    {u \in DOMAIN feed_metrics : /\ feed_metrics[u].checkpoint = w
                                 /\ feed_metrics[u].velocity_value # NULL
                                 /\ t - feed_metrics[u].checkpoint_at <= lookback_days}

\* the metrics of InLookback(w, t) in the group of an aggregate key
GroupOf(k, t) ==
    {u \in InLookback(k[3], t) :
        IF k[1] = "media_type"
        THEN (IF feed_metrics[u].media_type \in {NullText, ""} THEN "Unknown"
              ELSE feed_metrics[u].media_type) = k[2]
        ELSE (IF feed_metrics[u].velocity_tag = NoTag THEN <<"none">>
              ELSE feed_metrics[u].velocity_tag) = k[2]}

C38_ActiveIffListed ==
    [][(schedule_pc = "ensure" /\ schedule_pc' = "enqueue")
          => \A h \in DOMAIN feeders' :
                (feeders'[h] = "active")
                   <=> \E i \in DOMAIN handle_sheets :
                          /\ strip(handle_sheets[i]) # <<>>
                          /\ strip(handle_sheets[i]) = h]_vars

\* alerts.py:172-192  the rows the momentum_drop rule can pair: a d1 row and
\* a d2 row of the same post (the rule further compares their velocities)
MomentumDropPairs ==
    {p \in (DOMAIN checkpoint_metrics) \X (DOMAIN checkpoint_metrics) :
        p[1][1] = p[2][1] /\ p[1][2] = "d1" /\ p[2][2] = "d2"}

\* alerts.py:217-235  the rows the personal_record rule can rank: those at
\* checkpoint d0 (the rule further wants a metric of the last 30 days)
PersonalRecordRows == {k \in DOMAIN checkpoint_metrics : k[2] = "d0"}

\* C39: every checkpoint-metric row the worker writes has its checkpoint in
\* {d1, d3, d7, d21}, a D2 stage being stored under d1; so the momentum_drop
\* rule finds no pair of a d1 and a d2 row and the personal_record rule no d0
\* row, and neither generates a candidate
C39_NoD2OrD0Metric ==
    /\ \A k \in DOMAIN checkpoint_metrics :
          /\ k[2] \in {"d1", "d3", "d7", "d21"}
          /\ checkpoint_metrics[k].stage_label = "D2" => k[2] = "d1"
    /\ MomentumDropPairs = {}
    /\ PersonalRecordRows = {}

\* a post was classified between 24 and 48 hours after it was posted: its
\* metric has stage D2 and is the row of checkpoint d1
C39_Witness ==
    /\ <<"u1", "d1">> \in DOMAIN checkpoint_metrics
    /\ checkpoint_metrics[<<"u1", "d1">>].stage_label = "D2"
    /\ call.item.posted_at = 0
    /\ now = 24

\* how a call of _run_payload can have ended, given its last state
RunOutcomeOk ==
    /\ apify_run.outcome \in {"none", "items", "TimeoutError", "RuntimeError", "HTTPError"}
    /\ (apify_run.outcome = "none") <=> (apify_run.pc # "done" \/ apify_run = [NoRun EXCEPT
           !.timeout = apify_run.timeout, !.interval = apify_run.interval])
    /\ (apify_run.fetched \/ apify_run.pc = "items" \/ apify_run.outcome = "items")
          => /\ apify_run.status = "SUCCEEDED"
             /\ apify_run.dataset_id
    /\ apify_run.outcome = "items" => apify_run.fetched
    /\ apify_run.outcome = "TimeoutError"
          => /\ apify_run.status \in {"RUNNING", "READY"}
             /\ apify_run.elapsed > apify_run.timeout
             /\ ~apify_run.fetched
    /\ (/\ apify_run.pc = "done"
        /\ apify_run.status \notin {"", "RUNNING", "READY", "SUCCEEDED"})
          => apify_run.outcome \in {"RuntimeError", "HTTPError"} /\ ~apify_run.fetched
    /\ apify_run.outcome = "RuntimeError"
          => /\ ~apify_run.fetched
             /\ \/ apify_run.status = ""
                \/ apify_run.status \notin {"RUNNING", "READY", "SUCCEEDED"}
                \/ apify_run.status = "SUCCEEDED" /\ ~apify_run.dataset_id

====
